---- MODULE Spec2Model ----
(***************************************************************************)
(* Model of the transaction categorization pipeline of budget_claude      *)
(* (backend/app.py): the suggestion engine (get_llm_suggestion,           *)
(* get_batch_llm_suggestions), the prompt builders, the category          *)
(* validator, the bulk orchestrator (bulk_map) and the request handlers   *)
(* on the category, progress and file-mappings stores.                    *)
(*                                                                         *)
(* Texts are sequences of one-character strings, so that trimming, case   *)
(* folding, splitting and integer parsing are computed as Python computes *)
(* them.  A row index is an int or a str in Python; here it is a text      *)
(* whose first element is the type tag, so that an int and a str are      *)
(* never equal, as in Python.                                              *)
(***************************************************************************)
EXTENDS Integers, Sequences, FiniteSets, TLC

VARIABLES
    e_mode,            \* engine call under test: "single" or "batch"
    e_batch,           \* transaction_batch argument: sequence of [idx, data]
    e_categories,      \* categories argument
    e_history,         \* previous_mappings argument
    e_outcome,         \* what the backend does with the request
    e_sink,            \* state of the Langfuse sink during the call
    e_events,          \* what the call emitted to the sink
    e_pc,              \* "ready" before the call, "done" after it returned
    e_issued,          \* TRUE iff requests.post was executed by the call
    e_result,          \* returned value (a result, or a mapping idx -> result)
    categories_file,   \* content of categories.json
    progress_rows,     \* progress["rows"] of mapping_progress.json, in key order
    file_mappings,     \* content of file_mappings.json: file name -> [file_hash, rows]
    progress_file_name,  \* progress["file_name"] of mapping_progress.json
    progress_total_rows, \* progress["total_rows"] of mapping_progress.json
    pc,                \* bulk_map: "idle", "loop", "done"
    run_rows,          \* bulk_map local rows: progress["rows"] as loaded
    run_categories,    \* bulk_map local categories: the list as loaded
    unmapped_indices,  \* bulk_map local
    previous_mappings, \* bulk_map local: the in-run history
    mappings,          \* bulk_map local: idx -> outcome
    batch_start,       \* bulk_map local: loop variable
    processed_count,   \* bulk_map local
    calls,             \* log of get_batch_llm_suggestions invocations of the run
    response,          \* HTTP answer of bulk_map: [status, body]
    p_mode,            \* prompt builder under test: "single" or "batch"
    p_batch,           \* its transaction(s): sequence of [idx, data]
    p_categories,      \* its categories argument
    p_history,         \* its previous_mappings argument
    p_pc,              \* "ready" before the call, "done" after it returned
    p_prompt,          \* the prompt it returned
    v_input,           \* validate_and_correct_category: category_name
    v_pc,              \* "ready" before the call, "done" after it returned
    v_result,          \* the dict it returned
    s_last,            \* the last request served on the stores and its status
    s_count,           \* number of requests served on the stores
    s_seen             \* per file name: what was uploaded and mapped so far

engineVars == <<e_mode, e_batch, e_categories, e_history, e_outcome, e_sink,
                e_events, e_pc, e_issued, e_result>>
storeVars == <<categories_file, progress_rows, file_mappings, progress_file_name,
               progress_total_rows>>
bulkVars == <<pc, run_rows, run_categories, unmapped_indices, previous_mappings, mappings, batch_start,
              processed_count, calls, response>>
promptVars == <<p_mode, p_batch, p_categories, p_history, p_pc, p_prompt>>
validatorVars == <<v_input, v_pc, v_result>>
requestVars == <<s_last, s_count, s_seen>>
vars == <<engineVars, storeVars, bulkVars, promptVars, validatorVars, requestVars>>

(***************************************************************************)
(* Bounds of the model.                                                    *)
(***************************************************************************)
MaxBatchLen == 5       \* longest transaction_batch handed to the engine
MaxRows == 14          \* most rows in the progress store
MaxHistory == 102      \* longest history handed to a prompt builder
MaxNameLen == 3        \* longest category name drawn character by character
MaxRequests == 4       \* most requests served on the stores in one behaviour
MaxInterleaved == 2    \* most requests served between the batches of a bulk run

(***************************************************************************)
(* Program constants.                                                      *)
(***************************************************************************)
BATCH_SIZE == 5
HISTORY_WINDOW == 100
HTTP_OK == 200
MAX_CATEGORY_LENGTH == 50

(***************************************************************************)
(* Python values.                                                          *)
(***************************************************************************)
None == <<"None">>

Min(S) == CHOOSE x \in S : \A y \in S : x <= y
Max(S) == CHOOSE x \in S : \A y \in S : x >= y

NL == "\n"
SP == " "
DQ == "\""
SQ == "'"
Whitespace == {SP, NL, "\t"}
QuoteChars == {DQ, SQ}

UpperChars == <<"A","B","C","D","E","F","G","H","I","J","K","L","M",
                "N","O","P","Q","R","S","T","U","V","W","X","Y","Z">>
LowerChars == <<"a","b","c","d","e","f","g","h","i","j","k","l","m",
                "n","o","p","q","r","s","t","u","v","w","x","y","z">>
DigitChars == <<"0","1","2","3","4","5","6","7","8","9">>

IsDigit(c) == \E i \in 1..Len(DigitChars) : DigitChars[i] = c
DigitVal(c) == (CHOOSE i \in 1..Len(DigitChars) : DigitChars[i] = c) - 1

\* a letter outside a-z and A-Z, in its two cases
E_ACUTE == "é"
E_ACUTE_UPPER == "É"

\* str.lower() on one character
LowerChar(c) ==
    IF \E i \in 1..Len(UpperChars) : UpperChars[i] = c
    THEN LowerChars[CHOOSE i \in 1..Len(UpperChars) : UpperChars[i] = c]
    ELSE IF c = E_ACUTE_UPPER THEN E_ACUTE ELSE c

\* str.upper() on one character
UpperChar(c) ==
    IF \E i \in 1..Len(LowerChars) : LowerChars[i] = c
    THEN UpperChars[CHOOSE i \in 1..Len(LowerChars) : LowerChars[i] = c]
    ELSE IF c = E_ACUTE THEN E_ACUTE_UPPER ELSE c

MapChars(Op(_), s) == IF s = << >> THEN << >> ELSE [i \in 1..Len(s) |-> Op(s[i])]

\* str.lower()
Lower(s) == MapChars(LowerChar, s)

\* str.upper()
Upper(s) == MapChars(UpperChar, s)

\* str.strip(chars)
StripChars(s, cs) ==
    LET keep == {i \in 1..Len(s) : s[i] \notin cs}
    IN  IF keep = {} THEN << >> ELSE SubSeq(s, Min(keep), Max(keep))

\* str.strip()
Strip(s) == StripChars(s, Whitespace)

\* str.startswith(p)
StartsWith(s, p) == Len(s) >= Len(p) /\ SubSeq(s, 1, Len(p)) = p

\* str.split(sep) for a one-character separator
RECURSIVE Split(_, _)
Split(s, sep) ==
    LET pos == {i \in 1..Len(s) : s[i] = sep}
    IN  IF pos = {} THEN <<s>>
        ELSE <<SubSeq(s, 1, Min(pos) - 1)>>
                 \o Split(SubSeq(s, Min(pos) + 1, Len(s)), sep)

\* str.split(sep, 1)
SplitFirst(s, sep) ==
    LET pos == {i \in 1..Len(s) : s[i] = sep}
    IN  IF pos = {} THEN <<s>>
        ELSE <<SubSeq(s, 1, Min(pos) - 1), SubSeq(s, Min(pos) + 1, Len(s))>>

\* str.replace(pat, '')
RECURSIVE Remove(_, _)
Remove(s, pat) ==
    IF Len(s) < Len(pat) THEN s
    ELSE IF SubSeq(s, 1, Len(pat)) = pat
         THEN Remove(SubSeq(s, Len(pat) + 1, Len(s)), pat)
         ELSE <<Head(s)>> \o Remove(Tail(s), pat)

RECURSIVE DigitsValue(_)
DigitsValue(s) ==
    IF s = << >> THEN 0
    ELSE 10 * DigitsValue(SubSeq(s, 1, Len(s) - 1)) + DigitVal(s[Len(s)])

\* int(s): surrounding whitespace and one sign are accepted; anything else
\* raises ValueError (ok = FALSE)
ParseInt(s) ==
    LET t == Strip(s)
        signed == t # << >> /\ Head(t) \in {"+", "-"}
        body == IF signed THEN Tail(t) ELSE t
    IN  IF body = << >> \/ \E i \in 1..Len(body) : ~IsDigit(body[i])
        THEN [ok |-> FALSE, val |-> 0]
        ELSE [ok |-> TRUE,
              val |-> IF signed /\ Head(t) = "-" THEN 0 - DigitsValue(body)
                      ELSE DigitsValue(body)]

\* str(n)
RECURSIVE IntToStr(_)
IntToStr(n) ==
    IF n < 0 THEN <<"-">> \o IntToStr(0 - n)
    ELSE IF n < 10 THEN <<DigitChars[n + 1]>>
    ELSE IntToStr(n \div 10) \o <<DigitChars[(n % 10) + 1]>>

\* the int n and the str s as row indices: the type tag, then the decimal
\* digits of the int or the characters of the str
PyInt(n) == <<"int">> \o IntToStr(n)
PyStr(s) == <<"str">> \o s
IsInt(idx) == Head(idx) = "int"

\* f"{idx}": an int is rendered in decimal, a str as itself
Format(idx) == Tail(idx)

\* dict.get(key, default)
Get(d, key, default) == IF key \in DOMAIN d THEN d[key] ELSE default

\* x in list
InList(x, list) == \E i \in 1..Len(list) : list[i] = x

\* faulty variant: list[:n]
LastN_takesFirst(list, n) ==
    IF Len(list) <= n THEN list ELSE SubSeq(list, 1, n)

\* list[-n:]
LastN(list, n) ==
    IF Len(list) <= n THEN list ELSE SubSeq(list, Len(list) - n + 1, Len(list))

(***************************************************************************)
(* Results and error messages.  An error message is a tuple whose first   *)
(* element is the fixed part of the message.                               *)
(***************************************************************************)
ErrConnect == <<"Could not connect to Ollama. Make sure Ollama is running on ">>
ErrApi(status) == <<"Ollama API error: ", status>>
ErrException(text) == <<"str(e)", text>>
ErrInvalid(suggestion) == <<"LLM suggested invalid category: ", suggestion>>
ErrMissing(idx) == <<"LLM did not provide valid category for row ", Format(idx)>>

Success(suggestion) == [success |-> TRUE, suggestion |-> suggestion, error |-> None]
Failure(error) == [success |-> FALSE, suggestion |-> None, error |-> error]

\* bool(v) of a value that is None or a str
Truthy(v) == v # None /\ v # << >>

\* d[k] = v on a dict
Put(d, k, v) == (k :> v) @@ d

\* k in d, with Python's equality: an int and a str are never equal
HasKey(d, k) == k \in DOMAIN d

EmptyDict == << >>

(***************************************************************************)
(* The prompts.                                                            *)
(***************************************************************************)
NA == <<"N", "/", "A">>

\* one "- Date: ... | Amount: ... | Description: ... -> category" line
ExampleLine(mapping) ==
    [date |-> Get(mapping, "date", NA),
     amount |-> Get(mapping, "amount", NA),
     description |-> Get(mapping, "description", << >>),
     category |-> Get(mapping, "category", NA)]

\* the examples block of both prompts
Examples(history) ==
    LET window == LastN(history, HISTORY_WINDOW)
    IN  IF window = << >> THEN << >>
        ELSE [i \in 1..Len(window) |-> ExampleLine(window[i])]

\* one "Row idx: Date: ... | Amount: ... | Description: ..." line
TransactionLine(item) ==
    [row |-> Format(item.idx),
     date |-> Get(item.data, "Date", Get(item.data, "Transaction Date", NA)),
     amount |-> Get(item.data, "Amount", NA),
     description |-> Get(item.data, "Description", NA)]

\* The f-string of the batch prompt reads transaction_batch[0][0] and
\* transaction_batch[1][0]: a batch of fewer than two items raises IndexError.
build_batch_llm_prompt(transaction_batch, categories, history) ==
    IF Len(transaction_batch) < 2
    THEN [raised |-> TRUE, exception |-> "list index out of range"]
    ELSE [raised |-> FALSE,
          categories |-> categories,
          examples |-> Examples(history),
          transactions |-> [i \in 1..Len(transaction_batch) |->
                               TransactionLine(transaction_batch[i])],
          format_rows |-> <<Format(transaction_batch[1].idx),
                            Format(transaction_batch[2].idx)>>]

build_llm_prompt(transaction_data, categories, history) ==
    [raised |-> FALSE,
     categories |-> categories,
     examples |-> Examples(history),
     transaction |-> [date |-> Get(transaction_data, "Date", NA),
                      amount |-> Get(transaction_data, "Amount", NA),
                      description |-> Get(transaction_data, "Description", NA)]]

(***************************************************************************)
(* The backend.  An outcome is what requests.post does:                   *)
(*   kind "conn"            raises requests.exceptions.ConnectionError    *)
(*   kind "connect_timeout" raises ConnectTimeout (a ConnectionError)     *)
(*   kind "read_timeout"    raises ReadTimeout (not a ConnectionError)    *)
(*   kind "http"            returns a response with a status and a body:  *)
(*        json "bad"   the body is no JSON, response.json() raises        *)
(*        json "nokey" the JSON has no 'response' key                     *)
(*        json "ok"    the JSON carries 'response': text                  *)
(* gen describes how the text was produced (see the input sets below).    *)
(***************************************************************************)
\* faulty variant: no handler for ConnectionError
RaisesConnectionError_never(outcome) == FALSE

RaisesConnectionError(outcome) == outcome.kind \in {"conn", "connect_timeout"}
RaisesOther(outcome) == outcome.kind = "read_timeout"

\* response.json().get('response', '').strip(); raised = response.json() raised
ResponseText(outcome) ==
    IF outcome.json = "bad" THEN [raised |-> TRUE, text |-> << >>]
    ELSE IF outcome.json = "nokey" THEN [raised |-> FALSE, text |-> << >>]
    ELSE [raised |-> FALSE, text |-> Strip(outcome.text)]

(***************************************************************************)
(* The tracer (langfuse_tracer.py).  The sink is disabled, works, fails   *)
(* when a trace is created, or fails at every later call.                 *)
(***************************************************************************)
LiveTrace == <<"trace", "live">>
BrokenTrace == <<"trace", "broken">>
Sinks == {"disabled", "ok", "create_fails", "calls_fail"}

\* LangfuseTracer.create_trace: None when tracing is disabled or the client
\* raises, else the trace object
create_trace(sink) ==
    IF sink = "ok" THEN LiveTrace
    ELSE IF sink = "calls_fail" THEN BrokenTrace
    ELSE None

\* LangfuseTracer.add_span: nothing without a trace; an exception of
\* trace.span is caught
add_span(trace, name) ==
    [raised |-> FALSE, events |-> IF trace = LiveTrace THEN <<name>> ELSE << >>]

\* faulty variant: an exception of trace.generation is not caught
add_generation_unguarded(trace, name) ==
    [raised |-> trace = BrokenTrace,
     events |-> IF trace = LiveTrace THEN <<name>> ELSE << >>]

\* LangfuseTracer.add_generation: nothing without a trace; an exception of
\* trace.generation is caught
add_generation(trace, name) ==
    [raised |-> FALSE, events |-> IF trace = LiveTrace THEN <<name>> ELSE << >>]

(***************************************************************************)
(* get_llm_suggestion                                                      *)
(***************************************************************************)
\* faulty variant: exact match only
MatchCategory_exactOnly(suggestion, categories) ==
    [found |-> InList(suggestion, categories), value |-> suggestion]

\* faulty variant: every suggestion is accepted as it is
MatchCategory_acceptsAny(suggestion, categories) ==
    [found |-> TRUE, value |-> suggestion]

\* exact match first, then the first case-insensitive match
MatchCategory(suggestion, categories) ==
    IF InList(suggestion, categories)
    THEN [found |-> TRUE, value |-> suggestion]
    ELSE LET hits == {i \in 1..Len(categories) :
                         Lower(categories[i]) = Lower(suggestion)}
         IN  IF hits = {} THEN [found |-> FALSE, value |-> None]
             ELSE [found |-> TRUE, value |-> categories[Min(hits)]]

\* an exception that leaves the function
Raised(text) == [success |-> FALSE, suggestion |-> None, error |-> <<"raise", text>>]

\* The call returns [result, events]: the returned dict and what was emitted
\* to the sink.  An exception inside the try block, a tracer call included,
\* runs the handler 'except Exception'; an exception inside a handler leaves
\* the function.
get_llm_suggestion(transaction_data, categories, history, outcome, trace) ==
    LET unexpected(text, events) ==
            LET s == add_span(trace, "unexpected_error")
            IN  IF s.raised THEN [result |-> Raised(text), events |-> events]
                ELSE [result |-> Failure(ErrException(text)),
                      events |-> events \o s.events]
        traced(s, result, events) ==
            IF s.raised THEN unexpected("sink", events)
            ELSE [result |-> result, events |-> events \o s.events]
        built == add_span(trace, "build_prompt")
    IN  IF built.raised THEN unexpected("sink", << >>)
        ELSE IF RaisesConnectionError(outcome)
        THEN LET s == add_span(trace, "connection_error")
             IN  IF s.raised THEN [result |-> Raised("sink"), events |-> built.events]
                 ELSE [result |-> Failure(ErrConnect),
                       events |-> built.events \o s.events]
        ELSE IF RaisesOther(outcome) THEN unexpected("Read timed out", built.events)
        ELSE IF outcome.status # HTTP_OK
        THEN traced(add_span(trace, "ollama_error"), Failure(ErrApi(outcome.status)),
                    built.events)
        ELSE LET body == ResponseText(outcome)
             IN  IF body.raised THEN unexpected("JSONDecodeError", built.events)
                 ELSE LET g == add_generation(trace, "ollama_categorization")
                          suggestion == StripChars(Strip(body.text), QuoteChars)
                          match == MatchCategory(suggestion, categories)
                      IN  IF g.raised THEN unexpected("sink", built.events)
                          ELSE IF match.found
                          THEN traced(add_span(trace, "validation_success"),
                                      Success(match.value),
                                      built.events \o g.events)
                          ELSE traced(add_span(trace, "validation_error"),
                                      Failure(ErrInvalid(suggestion)),
                                      built.events \o g.events)

(***************************************************************************)
(* get_batch_llm_suggestions                                               *)
(***************************************************************************)
Row == <<"R", "o", "w">>
COLON == ":"

\* faulty variant: a case-insensitive hit keeps the model's spelling
MatchCategoryBatch_keepsRaw(suggestion, categories) ==
    [found |-> \E i \in 1..Len(categories) :
                  Lower(categories[i]) = Lower(suggestion),
     value |-> suggestion]

\* the batch copy of the category validation
MatchCategoryBatch(suggestion, categories) ==
    IF InList(suggestion, categories)
    THEN [found |-> TRUE, value |-> suggestion]
    ELSE LET hits == {i \in 1..Len(categories) :
                         Lower(categories[i]) = Lower(suggestion)}
         IN  IF hits = {} THEN [found |-> FALSE, value |-> None]
             ELSE [found |-> TRUE, value |-> categories[Min(hits)]]

SkipLine == [skip |-> TRUE, idx |-> PyInt(0), value |-> None]

\* One iteration of the parsing loop: the line is skipped, or
\* parsed_suggestions[idx] is set to value (None for an unmatched category).
ParseLine(raw, categories) ==
    LET line == Strip(raw)
    IN  IF line = << >> \/ ~StartsWith(line, Row) THEN SkipLine
        ELSE LET parts == SplitFirst(line, COLON)
             IN  IF Len(parts) # 2 THEN SkipLine
                 ELSE LET row_part == Strip(parts[1])
                          category_part == Strip(parts[2])
                          row_idx == ParseInt(Strip(Remove(row_part, Row)))
                          suggestion == StripChars(Strip(category_part), QuoteChars)
                          match == MatchCategoryBatch(suggestion, categories)
                      IN  IF ~row_idx.ok THEN SkipLine
                          ELSE [skip |-> FALSE,
                                idx |-> PyInt(row_idx.val),
                                value |-> IF match.found THEN match.value ELSE None]

\* faulty variant: the first skipped line ends the parsing
RECURSIVE ParseLines_stopsAtSkipped(_, _, _)
ParseLines_stopsAtSkipped(lines, categories, parsed) ==
    IF lines = << >> THEN parsed
    ELSE LET p == ParseLine(Head(lines), categories)
         IN  IF p.skip THEN parsed
             ELSE ParseLines_stopsAtSkipped(Tail(lines), categories,
                                            Put(parsed, p.idx, p.value))

\* faulty variant: the first line of a row is kept, later ones are ignored
RECURSIVE ParseLines_keepsFirst(_, _, _)
ParseLines_keepsFirst(lines, categories, parsed) ==
    IF lines = << >> THEN parsed
    ELSE LET p == ParseLine(Head(lines), categories)
         IN  ParseLines_keepsFirst(Tail(lines), categories,
                                   IF p.skip \/ HasKey(parsed, p.idx) THEN parsed
                                   ELSE Put(parsed, p.idx, p.value))

\* parsed_suggestions after the loop over the lines, from the first line on
RECURSIVE ParseLines(_, _, _)
ParseLines(lines, categories, parsed) ==
    IF lines = << >> THEN parsed
    ELSE LET p == ParseLine(Head(lines), categories)
         IN  ParseLines(Tail(lines), categories,
                        IF p.skip THEN parsed ELSE Put(parsed, p.idx, p.value))

\* the row indices of a batch
BatchKeys(batch) == {batch[i].idx : i \in 1..Len(batch)}

\* the result of one row of the batch
RowResult(idx, parsed_suggestions) ==
    IF HasKey(parsed_suggestions, idx) /\ Truthy(parsed_suggestions[idx])
    THEN Success(parsed_suggestions[idx])
    ELSE Failure(ErrMissing(idx))

\* faulty variant: the results are built from the indices of the parsed response
BuildResults_fromParsed(transaction_batch, parsed_suggestions, results) ==
    [idx \in DOMAIN parsed_suggestions |-> RowResult(idx, parsed_suggestions)]

\* faulty variant: one discarded category fails every row of the batch
BuildResults_discardFailsAll(transaction_batch, parsed_suggestions, results) ==
    [idx \in BatchKeys(transaction_batch) |->
        IF \E k \in DOMAIN parsed_suggestions : parsed_suggestions[k] = None
        THEN Failure(ErrMissing(idx))
        ELSE RowResult(idx, parsed_suggestions)]

\* "for idx, _ in transaction_batch: results[idx] = ..." on a successful parse
RECURSIVE BuildResults(_, _, _)
BuildResults(transaction_batch, parsed_suggestions, results) ==
    IF transaction_batch = << >> THEN results
    ELSE BuildResults(Tail(transaction_batch), parsed_suggestions,
                      Put(results, Head(transaction_batch).idx,
                          RowResult(Head(transaction_batch).idx, parsed_suggestions)))

\* "for idx, _ in transaction_batch: results[idx] = failure" of the error paths
RECURSIVE ErrorForAll(_, _, _)
ErrorForAll(transaction_batch, error, results) ==
    IF transaction_batch = << >> THEN results
    ELSE ErrorForAll(Tail(transaction_batch), error,
                     Put(results, Head(transaction_batch).idx, Failure(error)))

\* TRUE iff the call reaches requests.post
BatchRequestIssued(transaction_batch, categories, history) ==
    ~build_batch_llm_prompt(transaction_batch, categories, history).raised

\* the returned mapping and what the call emitted to the sink
Returned(results, events) == [result |-> results, events |-> events]

\* faulty variant: the status of the response is not checked
get_batch_llm_suggestions_unchecked(transaction_batch, categories, history, outcome, trace) ==
    LET prompt == build_batch_llm_prompt(transaction_batch, categories, history)
        failed(error, events) ==
            Returned(ErrorForAll(transaction_batch, error, EmptyDict), events)
    IN  IF prompt.raised THEN failed(ErrException(prompt.exception), << >>)
        ELSE IF RaisesConnectionError(outcome) THEN failed(ErrConnect, << >>)
        ELSE IF RaisesOther(outcome) THEN failed(ErrException("Read timed out"), << >>)
        ELSE LET body == ResponseText(outcome)
                 g == add_generation(trace, "batch_categorization")
             IN  IF body.raised THEN failed(ErrException("JSONDecodeError"), << >>)
                 ELSE IF g.raised THEN failed(ErrException("sink"), << >>)
                 ELSE Returned(BuildResults(transaction_batch,
                                            ParseLines(Split(body.text, NL),
                                                       categories, EmptyDict),
                                            EmptyDict),
                               g.events)

\* The call returns [result, events]: the returned mapping and what was
\* emitted to the sink.  The handlers of this function call no tracer method.
get_batch_llm_suggestions(transaction_batch, categories, history, outcome, trace) ==
    LET prompt == build_batch_llm_prompt(transaction_batch, categories, history)
        failed(error, events) ==
            Returned(ErrorForAll(transaction_batch, error, EmptyDict), events)
    IN  IF prompt.raised THEN failed(ErrException(prompt.exception), << >>)
        ELSE IF RaisesConnectionError(outcome) THEN failed(ErrConnect, << >>)
        ELSE IF RaisesOther(outcome) THEN failed(ErrException("Read timed out"), << >>)
        ELSE IF outcome.status # HTTP_OK
        THEN LET g == add_generation(trace, "batch_categorization")
             IN  IF g.raised THEN failed(ErrException("sink"), << >>)
                 ELSE failed(ErrApi(outcome.status), g.events)
        ELSE LET body == ResponseText(outcome)
                 g == add_generation(trace, "batch_categorization")
             IN  IF body.raised THEN failed(ErrException("JSONDecodeError"), << >>)
                 ELSE IF g.raised THEN failed(ErrException("sink"), << >>)
                 ELSE Returned(BuildResults(transaction_batch,
                                            ParseLines(Split(body.text, NL),
                                                       categories, EmptyDict),
                                            EmptyDict),
                               g.events)

(***************************************************************************)
(* validate_and_correct_category                                           *)
(***************************************************************************)
\* str.split(): the words between runs of whitespace
RECURSIVE SplitWords(_)
SplitWords(s) ==
    LET t == Strip(s)
        ws == {i \in 1..Len(t) : t[i] \in Whitespace}
    IN  IF t = << >> THEN << >>
        ELSE IF ws = {} THEN <<t>>
        ELSE <<SubSeq(t, 1, Min(ws) - 1)>>
                 \o SplitWords(SubSeq(t, Min(ws) + 1, Len(t)))

\* str.capitalize(): first character upper-cased, the others lower-cased
Capitalize(word) == <<UpperChar(Head(word))>> \o Lower(Tail(word))

\* " ".join(words)
RECURSIVE JoinWords(_)
JoinWords(words) ==
    IF words = << >> THEN << >>
    ELSE IF Len(words) = 1 THEN Head(words)
    ELSE Head(words) \o <<SP>> \o JoinWords(Tail(words))

\* the title-casing loop: every word but "&" is capitalized
TitleCase(s) ==
    LET words == SplitWords(s)
    IN  JoinWords([i \in 1..Len(words) |->
                      IF words[i] = <<"&">> THEN words[i] ELSE Capitalize(words[i])])

\* the characters the pattern [^a-zA-Z0-9\s&\-/] leaves in place
Allowed(c) ==
    \/ \E i \in 1..Len(LowerChars) : LowerChars[i] = c
    \/ \E i \in 1..Len(UpperChars) : UpperChars[i] = c
    \/ IsDigit(c)
    \/ c \in Whitespace
    \/ c \in {"&", "-", "/"}

\* re.sub(r'[^a-zA-Z0-9\s&\-/]', '', s)
RemoveInvalid(s) == SelectSeq(s, Allowed)

\* the entries of the corrections list
EmptyCorrection ==
    [kind |-> "Category name cannot be empty", before |-> << >>, after |-> << >>]
TruncationCorrection(length) ==
    [kind |-> "Truncated from", before |-> IntToStr(length),
     after |-> IntToStr(MAX_CATEGORY_LENGTH)]
CapitalizationCorrection(before, after) ==
    [kind |-> "Capitalization", before |-> before, after |-> after]
RemovalCorrection(before, after) ==
    [kind |-> "Removed invalid characters", before |-> before, after |-> after]

\* faulty variant: an empty name is returned as needing no correction
EmptyNameResult_uncorrected(category_name, corrected) ==
    [original |-> category_name, corrected |-> corrected,
     has_corrections |-> FALSE, corrections |-> << >>]

\* the return for an empty name
EmptyNameResult(category_name, corrected) ==
    [original |-> category_name, corrected |-> corrected,
     has_corrections |-> TRUE, corrections |-> <<EmptyCorrection>>]

validate_and_correct_category(category_name) ==
    LET stripped == Strip(category_name)
        too_long == Len(stripped) > MAX_CATEGORY_LENGTH
        truncated == IF too_long THEN SubSeq(stripped, 1, MAX_CATEGORY_LENGTH)
                     ELSE stripped
        corrected_capitalized == TitleCase(truncated)
        cleaned == RemoveInvalid(corrected_capitalized)
        corrections ==
            (IF too_long THEN <<TruncationCorrection(Len(stripped))>> ELSE << >>)
            \o (IF truncated # corrected_capitalized
                THEN <<CapitalizationCorrection(truncated, corrected_capitalized)>>
                ELSE << >>)
            \o (IF cleaned # corrected_capitalized
                THEN <<RemovalCorrection(corrected_capitalized, cleaned)>>
                ELSE << >>)
    IN  IF stripped = << >> THEN EmptyNameResult(category_name, stripped)
        ELSE [original |-> category_name, corrected |-> cleaned,
              has_corrections |-> Len(corrections) > 0,
              corrections |-> corrections]

(***************************************************************************)
(* Input sets: category lists, transactions, batches, backend outcomes.   *)
(***************************************************************************)
Food == <<"F", "o", "o", "d">>
Rent == <<"R", "e", "n", "t">>
Zz == <<"Z", "z">>                      \* a text that is no category

\* category lists as confirm_add_category leaves them: sorted by lower-cased
\* name, no two names equal case-insensitively, no empty name
CategoryLists == {<< >>, <<Food>>, <<Food, Rent>>}

\* the transaction of row n; the date is under 'Date' or 'Transaction Date'
TxData(n) ==
    IF n % 2 = 0
    THEN [Date |-> <<"d">> \o IntToStr(n), Amount |-> IntToStr(n),
          Description |-> <<"x">> \o IntToStr(n)]
    ELSE ("Transaction Date" :> (<<"d">> \o IntToStr(n)))
             @@ [Amount |-> IntToStr(n), Description |-> <<"x">> \o IntToStr(n)]

\* row index n as an int (callers such as the test script) or as a str (the
\* keys of progress["rows"])
Key(kind, n) == IF kind = "int" THEN PyInt(n) ELSE PyStr(IntToStr(n))

KeyKinds == {"int", "str"}
BatchStarts == {0, 9}

BatchOf(kind, start, len) ==
    IF len = 0 THEN << >>
    ELSE [i \in 1..len |-> [idx |-> Key(kind, start + i - 1),
                            data |-> TxData(start + i - 1)]]

\* batches with unique indices, and one with a repeated index
Batches ==
    {BatchOf(kind, start, len) :
        kind \in KeyKinds, start \in BatchStarts, len \in 0..MaxBatchLen}
    \cup {<<[idx |-> PyInt(3), data |-> TxData(3)],
            [idx |-> PyInt(3), data |-> TxData(4)]>>}

Histories ==
    {<< >>,
     <<[date |-> <<"d">>, amount |-> <<"1">>, description |-> <<"x">>,
        category |-> Food]>>}

\* the category the backend names for the k-th line
CatFor(categories, k) ==
    IF categories = << >> THEN Zz ELSE categories[(k % Len(categories)) + 1]

LineStyles == {"exact", "upper", "lower", "quoted", "padded", "unmatched",
               "nocolon", "norow", "nonint", "absent"}

\* the text of one response line for row idx and category cat
LineText(idx, style, cat) ==
    LET rowtok == Row \o <<SP>> \o Format(idx)
    IN  CASE style = "exact" -> rowtok \o <<COLON, SP>> \o cat
          [] style = "upper" -> rowtok \o <<COLON, SP>> \o Upper(cat)
          [] style = "lower" -> rowtok \o <<COLON, SP>> \o Lower(cat)
          [] style = "quoted" -> rowtok \o <<COLON, SP, DQ>> \o cat \o <<DQ>>
          [] style = "padded" -> <<SP, SP>> \o Row \o <<SP, SP>> \o Format(idx)
                                    \o <<SP, COLON, SP, SP>> \o cat \o <<SP>>
          [] style = "unmatched" -> rowtok \o <<COLON, SP>> \o Zz
          [] style = "nocolon" -> rowtok \o <<SP>> \o cat
          [] style = "norow" -> Format(idx) \o <<COLON, SP>> \o cat
          [] style = "nonint" -> Row \o <<SP, "a", "b", "c", COLON, SP>> \o cat
          [] OTHER -> << >>

\* the response text of a sequence of line descriptions [idx, style, cat]
RECURSIVE Render(_)
Render(gen) ==
    IF gen = << >> THEN << >>
    ELSE IF Head(gen).style = "absent" THEN Render(Tail(gen))
    ELSE LET rest == Render(Tail(gen))
             line == LineText(Head(gen).idx, Head(gen).style, Head(gen).cat)
         IN  IF rest = << >> THEN line ELSE line \o <<NL>> \o rest

Uniform(batch, categories, style, shift) ==
    IF batch = << >> THEN << >>
    ELSE [i \in 1..Len(batch) |->
             [idx |-> batch[i].idx, style |-> style,
              cat |-> CatFor(categories, i + shift)]]

\* optional trailing lines: a second line for the first row (another
\* category, or no category), or a line for a row that is not in the batch
Trailers(batch, categories) ==
    {<< >>, <<[idx |-> PyInt(77), style |-> "exact", cat |-> CatFor(categories, 0)]>>}
    \cup (IF batch = << >> THEN {}
          ELSE {<<[idx |-> batch[1].idx, style |-> "exact",
                   cat |-> CatFor(categories, 0)]>>,
                <<[idx |-> batch[1].idx, style |-> "unmatched",
                   cat |-> Zz]>>})

Shifts(categories) == 0..(IF Len(categories) > 1 THEN Len(categories) - 1 ELSE 0)

\* line descriptions: every row in one style, or every row exact but one
BodyGens(batch, categories) ==
    {Uniform(batch, categories, style, shift) :
        style \in LineStyles, shift \in Shifts(categories)}
    \cup {[Uniform(batch, categories, "exact", shift) EXCEPT ![pos].style = style] :
            pos \in 1..Len(batch), style \in LineStyles \ {"exact"},
            shift \in Shifts(categories)}

BatchGens(batch, categories) ==
    {body \o trailer :
        body \in BodyGens(batch, categories), trailer \in Trailers(batch, categories)}

ErrorStatuses == {404, 500}

Raise(kind) ==
    [kind |-> kind, status |-> 0, json |-> "bad", text |-> << >>, gen |-> << >>]
Http(status, json, text, gen) ==
    [kind |-> "http", status |-> status, json |-> json, text |-> text, gen |-> gen]

BatchOutcomes(batch, categories) ==
    {Raise(kind) : kind \in {"conn", "connect_timeout", "read_timeout"}}
    \cup {Http(HTTP_OK, "ok", Render(gen), gen) : gen \in BatchGens(batch, categories)}
    \cup {Http(status, "ok", Render(Uniform(batch, categories, "exact", 0)),
               Uniform(batch, categories, "exact", 0)) : status \in ErrorStatuses}
    \cup {Http(status, json, << >>, << >>) :
            status \in ErrorStatuses \cup {HTTP_OK}, json \in {"bad", "nokey"}}

SingleStyles == {"exact", "upper", "lower", "quoted", "squoted", "padded", "inner"}

\* the text of a single-mode answer naming cat
SingleText(style, cat) ==
    CASE style = "exact" -> cat
      [] style = "upper" -> Upper(cat)
      [] style = "lower" -> Lower(cat)
      [] style = "quoted" -> <<DQ>> \o cat \o <<DQ>>
      [] style = "squoted" -> <<SP, SQ>> \o Upper(cat) \o <<SQ, NL>>
      [] style = "padded" -> <<SP, SP>> \o cat \o <<NL>>
      [] OTHER -> <<DQ, SP>> \o cat \o <<SP, DQ>>

SingleGens(categories) ==
    {<<[idx |-> PyInt(0), style |-> style, cat |-> cat]>> :
        style \in SingleStyles,
        cat \in {categories[i] : i \in 1..Len(categories)} \cup {Zz}}

SingleOutcomes(categories) ==
    {Raise(kind) : kind \in {"conn", "connect_timeout", "read_timeout"}}
    \cup {Http(status, "ok", SingleText(gen[1].style, gen[1].cat), gen) :
            status \in ErrorStatuses \cup {HTTP_OK}, gen \in SingleGens(categories)}
    \cup {Http(status, json, << >>, << >>) :
            status \in ErrorStatuses \cup {HTTP_OK}, json \in {"bad", "nokey"}}

(***************************************************************************)
(* Specification SpecEngine: one call of get_llm_suggestion or of          *)
(* get_batch_llm_suggestions on inputs drawn from the sets above.          *)
(***************************************************************************)
StoreIdle ==
    /\ categories_file = << >>
    /\ progress_rows = << >>
    /\ file_mappings = EmptyDict
    /\ progress_file_name = None
    /\ progress_total_rows = 0

NoRequest == [op |-> "none", status |-> 0, name |-> << >>, idx |-> None, rows |-> << >>]

RequestIdle ==
    /\ s_last = NoRequest
    /\ s_count = 0
    /\ s_seen = EmptyDict

BulkIdle ==
    /\ pc = "idle"
    /\ run_rows = << >>
    /\ run_categories = << >>
    /\ unmapped_indices = << >>
    /\ previous_mappings = << >>
    /\ mappings = EmptyDict
    /\ batch_start = 0
    /\ processed_count = 0
    /\ calls = << >>
    /\ response = [status |-> 0]

PromptIdle ==
    /\ p_mode = "none"
    /\ p_batch = << >>
    /\ p_categories = << >>
    /\ p_history = << >>
    /\ p_pc = "idle"
    /\ p_prompt = [raised |-> FALSE]

ValidatorIdle ==
    /\ v_input = << >>
    /\ v_pc = "idle"
    /\ v_result = EmptyNameResult(<< >>, << >>)

EngineIdle ==
    /\ e_mode = "none"
    /\ e_batch = << >>
    /\ e_categories = << >>
    /\ e_history = << >>
    /\ e_outcome = Raise("conn")
    /\ e_sink = "disabled"
    /\ e_events = << >>
    /\ e_pc = "idle"
    /\ e_issued = FALSE
    /\ e_result = EmptyDict

InitEngine ==
    /\ e_mode \in {"single", "batch"}
    /\ e_categories \in CategoryLists
    /\ e_history \in Histories
    /\ IF e_mode = "single"
       THEN /\ e_batch \in {BatchOf("int", 0, 1), BatchOf("int", 1, 1)}
            /\ e_outcome \in SingleOutcomes(e_categories)
       ELSE /\ e_batch \in Batches
            /\ e_outcome \in BatchOutcomes(e_batch, e_categories)
    /\ e_sink \in Sinks
    /\ e_events = << >>
    /\ e_pc = "ready"
    /\ e_issued = FALSE
    /\ e_result = EmptyDict
    /\ StoreIdle
    /\ BulkIdle
    /\ PromptIdle
    /\ ValidatorIdle
    /\ RequestIdle

CallSingle ==
    /\ e_pc = "ready"
    /\ e_mode = "single"
    /\ LET call == get_llm_suggestion(e_batch[1].data, e_categories, e_history,
                                      e_outcome, create_trace(e_sink))
       IN  /\ e_result' = call.result
           /\ e_events' = call.events
    /\ e_issued' = TRUE
    /\ e_pc' = "done"
    /\ UNCHANGED <<e_mode, e_batch, e_categories, e_history, e_outcome, e_sink>>
    /\ UNCHANGED <<storeVars, bulkVars, promptVars, validatorVars, requestVars>>

CallBatch ==
    /\ e_pc = "ready"
    /\ e_mode = "batch"
    /\ LET call == get_batch_llm_suggestions(e_batch, e_categories, e_history,
                                             e_outcome, create_trace(e_sink))
       IN  /\ e_result' = call.result
           /\ e_events' = call.events
    /\ e_issued' = BatchRequestIssued(e_batch, e_categories, e_history)
    /\ e_pc' = "done"
    /\ UNCHANGED <<e_mode, e_batch, e_categories, e_history, e_outcome, e_sink>>
    /\ UNCHANGED <<storeVars, bulkVars, promptVars, validatorVars, requestVars>>

NextEngine == CallSingle \/ CallBatch

SpecEngine == InitEngine /\ [][NextEngine]_vars

(***************************************************************************)
(* Properties of the suggestion engine (checked under SpecEngine).         *)
(***************************************************************************)
SameKey(a, b) == a = b

BatchDone == e_pc = "done" /\ e_mode = "batch"
SingleDone == e_pc = "done" /\ e_mode = "single"

AnsweredOk(outcome) ==
    outcome.kind = "http" /\ outcome.status = 200 /\ outcome.json = "ok"

\* C1: whatever the backend does, the keys of the mapping returned by
\* get_batch_llm_suggestions are exactly the row indices of the input batch.
C1_KeySetEqualsBatch ==
    BatchDone => DOMAIN e_result = BatchKeys(e_batch)

\* a returned batch whose response named a row that is not in the batch and
\* left out a row that is
C1_Witness ==
    /\ BatchDone
    /\ e_issued
    /\ AnsweredOk(e_outcome)
    /\ \E i \in 1..Len(e_outcome.gen) : SameKey(e_outcome.gen[i].idx, PyInt(77))
    /\ \E i \in 1..Len(e_outcome.gen) : e_outcome.gen[i].style = "absent"
    /\ DOMAIN e_result = BatchKeys(e_batch)

UniqueIntBatch(batch) ==
    /\ \A i \in 1..Len(batch) : IsInt(batch[i].idx)
    /\ \A i, j \in 1..Len(batch) : i # j => batch[i].idx # batch[j].idx

\* status 200 with exactly one line "Row i: Category" per row of the batch,
\* every Category in the category list
WellFormedFor(batch, categories, outcome) ==
    /\ AnsweredOk(outcome)
    /\ Len(outcome.gen) = Len(batch)
    /\ \A i \in 1..Len(batch) :
          /\ SameKey(outcome.gen[i].idx, batch[i].idx)
          /\ outcome.gen[i].style = "exact"
          /\ InList(outcome.gen[i].cat, categories)

\* C2: a batch of 1 to 5 rows with unique integer indices and a well-formed
\* response gets success for every row, with the category of the row's line.
C2_WellFormedBatchAllSucceed ==
    (/\ BatchDone
     /\ Len(e_batch) >= 1
     /\ Len(e_batch) <= 5
     /\ UniqueIntBatch(e_batch)
     /\ WellFormedFor(e_batch, e_categories, e_outcome))
    => \A i \in 1..Len(e_batch) :
          /\ e_result[e_batch[i].idx].success
          /\ e_result[e_batch[i].idx].suggestion = e_outcome.gen[i].cat

\* C4: every successful result carries an element of the category list.
C4_SuccessIsListedCategory ==
    /\ SingleDone /\ e_result.success => InList(e_result.suggestion, e_categories)
    /\ BatchDone =>
          \A k \in DOMAIN e_result :
              e_result[k].success => InList(e_result[k].suggestion, e_categories)

\* a batch row that succeeded on a line spelled in another letter case
C4_Witness ==
    /\ BatchDone
    /\ \E i \in 1..Len(e_batch) :
          /\ e_result[e_batch[i].idx].success
          /\ i <= Len(e_outcome.gen)
          /\ e_outcome.gen[i].style = "upper"
          /\ Upper(e_outcome.gen[i].cat) # e_outcome.gen[i].cat

\* the model output after trimming whitespace and surrounding quotes
Cleaned(text) == StripChars(StripChars(text, {" ", "\n", "\t"}), {"\"", "'"})

\* line styles whose category part differs from the category in case only
\* once cleaned
CaseStyles == {"exact", "upper", "lower", "quoted", "padded"}

\* the lines of the response that name row idx
LinesFor(gen, idx) ==
    {i \in 1..Len(gen) : gen[i].style # "absent" /\ SameKey(gen[i].idx, idx)}

\* C5: a model output that differs from a category C only in letter case
\* resolves to C as spelled in the list: in single mode the call succeeds
\* with C, in batch mode the row named by such a line succeeds with C.
C5_CaseVariantResolves ==
    /\ (SingleDone /\ AnsweredOk(e_outcome)) =>
          \A c \in 1..Len(e_categories) :
              Lower(Cleaned(e_outcome.text)) = Lower(e_categories[c])
              => /\ e_result.success
                 /\ e_result.suggestion = e_categories[c]
    /\ (BatchDone /\ e_issued /\ AnsweredOk(e_outcome) /\ UniqueIntBatch(e_batch)) =>
          \A i \in 1..Len(e_batch) :
              LET mine == LinesFor(e_outcome.gen, e_batch[i].idx)
              IN  \A l \in mine :
                      (/\ mine = {l}
                       /\ e_outcome.gen[l].style \in CaseStyles
                       /\ InList(e_outcome.gen[l].cat, e_categories))
                      => /\ e_result[e_batch[i].idx].success
                         /\ e_result[e_batch[i].idx].suggestion = e_outcome.gen[l].cat

\* a single-mode answer in another letter case, padded and quoted, resolved
\* to the listed spelling
C5_Witness ==
    /\ SingleDone
    /\ AnsweredOk(e_outcome)
    /\ e_outcome.gen[1].style = "squoted"
    /\ e_outcome.text # e_outcome.gen[1].cat
    /\ Cleaned(e_outcome.text) # e_outcome.gen[1].cat
    /\ e_result.success
    /\ e_result.suggestion = e_outcome.gen[1].cat

\* C9: when requests.post of a batch call fails to connect, every row of the
\* batch gets the 'Could not connect' failure and nothing else.
C9_ConnectionFailureForEveryRow ==
    (BatchDone /\ e_issued /\ e_outcome.kind \in {"conn", "connect_timeout"}) =>
        /\ DOMAIN e_result = BatchKeys(e_batch)
        /\ \A k \in DOMAIN e_result :
              /\ ~e_result[k].success
              /\ e_result[k].suggestion = None
              /\ e_result[k].error
                     = <<"Could not connect to Ollama. Make sure Ollama is running on ">>

C9_Witness ==
    /\ BatchDone
    /\ e_issued
    /\ e_outcome.kind = "conn"
    /\ Len(e_batch) = 5
    /\ \A k \in DOMAIN e_result : ~e_result[k].success

\* C10: a status other than 200 gives the 'Ollama API error: <status>'
\* failure, in single mode and for every row of a batch, whatever the body.
C10_BadStatusIsBackendError ==
    /\ (SingleDone /\ e_outcome.kind = "http" /\ e_outcome.status # 200) =>
          /\ ~e_result.success
          /\ e_result.suggestion = None
          /\ e_result.error = <<"Ollama API error: ", e_outcome.status>>
    /\ (BatchDone /\ e_issued /\ e_outcome.kind = "http" /\ e_outcome.status # 200) =>
          /\ DOMAIN e_result = BatchKeys(e_batch)
          /\ \A k \in DOMAIN e_result :
                /\ ~e_result[k].success
                /\ e_result[k].suggestion = None
                /\ e_result[k].error = <<"Ollama API error: ", e_outcome.status>>

\* a batch answered with status 500 and a body of valid lines
C10_Witness ==
    /\ BatchDone
    /\ e_issued
    /\ e_outcome.kind = "http"
    /\ e_outcome.status = 500
    /\ e_outcome.json = "ok"
    /\ Len(e_batch) >= 2
    /\ e_categories # << >>
    /\ \A i \in 1..Len(e_batch) : e_outcome.gen[i].style = "exact"
    /\ \A k \in DOMAIN e_result : ~e_result[k].success

\* the kind of a failure, read from the fixed part of its message
ErrorKind(error) ==
    CASE error[1] = "Could not connect to Ollama. Make sure Ollama is running on "
             -> "Unreachable"
      [] error[1] = "Ollama API error: " -> "BackendError"
      [] error[1] = "LLM suggested invalid category: " -> "InvalidCategory"
      [] error[1] = "LLM did not provide valid category for row "
             -> "MissingSuggestion"
      [] OTHER -> "Other"

Timeouts == {"connect_timeout", "read_timeout"}

\* C11: when requests.post exceeds its deadline, the call returns a failure
\* of the kind Unreachable or BackendError, in single mode and for every row
\* of a batch.
C11_TimeoutIsUnreachableOrBackendError ==
    /\ (SingleDone /\ e_outcome.kind \in Timeouts) =>
          /\ ~e_result.success
          /\ e_result.suggestion = None
          /\ ErrorKind(e_result.error) \in {"Unreachable", "BackendError"}
    /\ (BatchDone /\ e_issued /\ e_outcome.kind \in Timeouts) =>
          /\ DOMAIN e_result = BatchKeys(e_batch)
          /\ \A k \in DOMAIN e_result :
                /\ ~e_result[k].success
                /\ e_result[k].suggestion = None
                /\ ErrorKind(e_result[k].error) \in {"Unreachable", "BackendError"}

\* C12: a single-mode answer whose cleaned text matches no category, even
\* case-insensitively, gives the 'LLM suggested invalid category' failure
\* carrying the cleaned text, with no suggestion.
C12_UnmatchedIsInvalidCategory ==
    (/\ SingleDone
     /\ AnsweredOk(e_outcome)
     /\ \A c \in 1..Len(e_categories) :
            Lower(e_categories[c]) # Lower(Cleaned(e_outcome.text)))
    => /\ ~e_result.success
       /\ e_result.suggestion = None
       /\ ErrorKind(e_result.error) = "InvalidCategory"
       /\ e_result.error[2] = Cleaned(e_outcome.text)

\* a quoted answer naming a text that is no category, over a non-empty list
C12_Witness ==
    /\ SingleDone
    /\ AnsweredOk(e_outcome)
    /\ e_categories # << >>
    /\ e_outcome.gen[1].style = "quoted"
    /\ e_outcome.gen[1].cat = Zz
    /\ ~e_result.success
    /\ e_result.error = <<"LLM suggested invalid category: ", Zz>>

\* line styles the parsing loop skips, and those it stores
MalformedStyles == {"nocolon", "norow", "nonint"}
ParsedStyles == CaseStyles \cup {"unmatched"}

\* the lines of the response that the loop stores under row idx
ParsedLinesFor(gen, idx) ==
    {l \in LinesFor(gen, idx) : gen[l].style \in ParsedStyles}

\* the category of the line matches the list, exactly or case-insensitively
LineMatches(line, categories) ==
    /\ line.style \in CaseStyles
    /\ \E c \in 1..Len(categories) : Lower(categories[c]) = Lower(line.cat)

\* row i of the batch got the 'did not provide valid category' failure
RowMissing(i) ==
    /\ ~e_result[e_batch[i].idx].success
    /\ e_result[e_batch[i].idx].suggestion = None
    /\ ErrorKind(e_result[e_batch[i].idx].error) = "MissingSuggestion"
    /\ e_result[e_batch[i].idx].error[2] = Format(e_batch[i].idx)

\* row i of the batch succeeded with the category cat
RowSucceeded(i, cat) ==
    /\ e_result[e_batch[i].idx].success
    /\ e_result[e_batch[i].idx].suggestion = cat
    /\ e_result[e_batch[i].idx].error = None

BatchParsed ==
    BatchDone /\ e_issued /\ AnsweredOk(e_outcome) /\ UniqueIntBatch(e_batch)

\* C13: a response with a line that does not start with 'Row', has no colon
\* or has a non-integer index still gives every row its result: a row whose
\* lines are all of that sort gets the MissingSuggestion failure, and a row
\* with a valid line of its own succeeds.
C13_MalformedLinesAreSkipped ==
    (BatchParsed /\ \E l \in 1..Len(e_outcome.gen) :
                        e_outcome.gen[l].style \in MalformedStyles) =>
        /\ DOMAIN e_result = BatchKeys(e_batch)
        /\ \A i \in 1..Len(e_batch) :
              LET parsed == ParsedLinesFor(e_outcome.gen, e_batch[i].idx)
              IN  IF parsed = {} THEN RowMissing(i)
                  ELSE LineMatches(e_outcome.gen[Max(parsed)], e_categories)
                       => RowSucceeded(i, e_outcome.gen[Max(parsed)].cat)

\* a batch of three or more rows whose second row is named by 'Row abc: ...'
\* only; that row is missing and all the others succeeded
C13_Witness ==
    /\ BatchParsed
    /\ Len(e_batch) >= 3
    /\ e_outcome.gen[2].style = "nonint"
    /\ RowMissing(2)
    /\ \A i \in 1..Len(e_batch) : i # 2 => e_result[e_batch[i].idx].success

\* C14: a row whose parsed line names a category that matches no entry of
\* the list gets the MissingSuggestion failure, and every other row whose
\* line names a category of the list succeeds.
C14_UnmatchedCategoryFailsOnlyItsRow ==
    BatchParsed =>
        /\ DOMAIN e_result = BatchKeys(e_batch)
        /\ \A i \in 1..Len(e_batch) :
              LET parsed == ParsedLinesFor(e_outcome.gen, e_batch[i].idx)
              IN  parsed # {} =>
                      IF LineMatches(e_outcome.gen[Max(parsed)], e_categories)
                      THEN RowSucceeded(i, e_outcome.gen[Max(parsed)].cat)
                      ELSE RowMissing(i)

\* a batch whose third row was answered with a text that is no category; that
\* row is missing and all the others succeeded
C14_Witness ==
    /\ BatchParsed
    /\ Len(e_batch) >= 3
    /\ e_outcome.gen[3].style = "unmatched"
    /\ ParsedLinesFor(e_outcome.gen, e_batch[3].idx) = {3}
    /\ RowMissing(3)
    /\ \A i \in 1..Len(e_batch) : i # 3 => e_result[e_batch[i].idx].success

\* C28: when the response holds several parsed lines for one row, the last
\* of them alone decides the row: a matching category makes the row succeed
\* with it, an unmatched one gives the row the MissingSuggestion failure.
C28_LastLineOfARowDecides ==
    BatchParsed =>
        \A i \in 1..Len(e_batch) :
            LET parsed == ParsedLinesFor(e_outcome.gen, e_batch[i].idx)
                last == e_outcome.gen[Max(parsed)]
            IN  Cardinality(parsed) >= 2 =>
                    IF LineMatches(last, e_categories)
                    THEN RowSucceeded(i, last.cat)
                    ELSE RowMissing(i)

\* the first row was answered with a category of the list and, in a later
\* line, with a text that is no category: the row is missing
C28_Witness ==
    /\ BatchParsed
    /\ LET parsed == ParsedLinesFor(e_outcome.gen, e_batch[1].idx)
       IN  /\ Cardinality(parsed) = 2
           /\ LineMatches(e_outcome.gen[Min(parsed)], e_categories)
           /\ e_outcome.gen[Max(parsed)].style = "unmatched"
    /\ RowMissing(1)
    /\ \A i \in 2..Len(e_batch) : e_result[e_batch[i].idx].success

\* C20: whatever the state of the sink, the call returns what it returns
\* when no trace is given, and no exception of the sink leaves the call.
C20_SinkNeverAffectsResult ==
    /\ SingleDone =>
          /\ e_result = get_llm_suggestion(e_batch[1].data, e_categories,
                                           e_history, e_outcome, None).result
          /\ ~e_result.success => e_result.error[1] # "raise"
    /\ BatchDone =>
          /\ e_result = get_batch_llm_suggestions(e_batch, e_categories,
                                                  e_history, e_outcome, None).result
          /\ \A k \in DOMAIN e_result :
                ~e_result[k].success => e_result[k].error # <<"str(e)", "sink">>
    /\ e_pc = "done" /\ e_sink # "ok" => e_events = << >>

\* a single-mode call that succeeded although every call of the sink failed
C20_Witness ==
    /\ SingleDone
    /\ e_sink = "calls_fail"
    /\ create_trace(e_sink) # None
    /\ e_events = << >>
    /\ e_result.success

\* with a working sink the same calls emit their events
SinkReceivesEvents ==
    /\ BatchDone
    /\ e_sink = "ok"
    /\ e_events = <<"batch_categorization">>
    /\ \E k \in DOMAIN e_result : e_result[k].success

(***************************************************************************)
(* bulk_map                                                                *)
(***************************************************************************)
\* [idx for idx, row_data in rows.items() if not row_data.get("mapped", False)]
UnmappedIndices(rows) ==
    LET sel == SelectSeq(rows, LAMBDA r : ~r.mapped)
    IN  IF sel = << >> THEN << >> ELSE [i \in 1..Len(sel) |-> sel[i].key]

\* the history example bulk_map builds from a transaction and a category
HistoryEntry(transaction_data, category) ==
    [date |-> Get(transaction_data, "Transaction Date", << >>),
     amount |-> Get(transaction_data, "Amount", << >>),
     description |-> Get(transaction_data, "Description", << >>),
     category |-> category]

\* previous_mappings before the first batch: one example per mapped row
InitialHistory(rows) ==
    LET sel == SelectSeq(rows, LAMBDA r : r.mapped /\ Truthy(r.category))
    IN  IF sel = << >> THEN << >>
        ELSE [i \in 1..Len(sel) |-> HistoryEntry(sel[i].data, sel[i].category)]

\* rows[idx].get("data", {})
RowData(rows, idx) == rows[CHOOSE i \in 1..Len(rows) : rows[i].key = idx].data

\* faulty variant: the slice ends one row early
BatchIndices_shortSlice(indices, start) ==
    LET batch_end == IF start + BATCH_SIZE <= Len(indices)
                     THEN start + BATCH_SIZE - 1 ELSE Len(indices)
    IN  SubSeq(indices, start + 1, batch_end)

\* unmapped_indices[batch_start:batch_end]
BatchIndices(indices, start) ==
    LET batch_end == IF start + BATCH_SIZE <= Len(indices)
                     THEN start + BATCH_SIZE ELSE Len(indices)
    IN  SubSeq(indices, start + 1, batch_end)

\* [(idx, rows[idx].get("data", {})) for idx in batch_indices]
TransactionBatch(rows, batch_indices) ==
    IF batch_indices = << >> THEN << >>
    ELSE [i \in 1..Len(batch_indices) |->
             [idx |-> batch_indices[i], data |-> RowData(rows, batch_indices[i])]]

\* faulty variant: a failed row is stored without its error
MappingEntry_errorDropped(transaction_data, result_info) ==
    IF result_info.success /\ Truthy(result_info.suggestion)
    THEN [data |-> transaction_data, suggestion |-> result_info.suggestion,
          confirmed |-> FALSE]
    ELSE [data |-> transaction_data, suggestion |-> None, confirmed |-> FALSE]

\* mappings[idx] for one result
MappingEntry(transaction_data, result_info) ==
    IF result_info.success /\ Truthy(result_info.suggestion)
    THEN [data |-> transaction_data, suggestion |-> result_info.suggestion,
          confirmed |-> FALSE]
    ELSE [data |-> transaction_data, suggestion |-> None,
          error |-> result_info.error, confirmed |-> FALSE]

\* faulty variant: a failed row is appended to the history too
RECURSIVE MergeResults_appendsFailed(_, _, _, _)
MergeResults_appendsFailed(order, batch_results, rows, acc) ==
    IF order = << >> THEN acc
    ELSE LET idx == Head(order)
             result_info == batch_results[idx]
             transaction_data == RowData(rows, idx)
         IN  MergeResults_appendsFailed(Tail(order), batch_results, rows,
                 [mappings |-> Put(acc.mappings, idx,
                                   MappingEntry(transaction_data, result_info)),
                  previous_mappings |->
                      Append(acc.previous_mappings,
                             HistoryEntry(transaction_data, result_info.suggestion)),
                  processed_count |-> acc.processed_count + 1])

\* "for idx, result_info in batch_results.items()": the results are merged in
\* the order of the batch; acc holds mappings, previous_mappings and
\* processed_count
RECURSIVE MergeResults(_, _, _, _)
MergeResults(order, batch_results, rows, acc) ==
    IF order = << >> THEN acc
    ELSE LET idx == Head(order)
             result_info == batch_results[idx]
             transaction_data == RowData(rows, idx)
             ok == result_info.success /\ Truthy(result_info.suggestion)
         IN  MergeResults(Tail(order), batch_results, rows,
                 [mappings |-> Put(acc.mappings, idx,
                                   MappingEntry(transaction_data, result_info)),
                  previous_mappings |->
                      IF ok
                      THEN Append(acc.previous_mappings,
                                  HistoryEntry(transaction_data, result_info.suggestion))
                      ELSE acc.previous_mappings,
                  processed_count |-> acc.processed_count + 1])

\* faulty variant: the suggestions of a batch are saved as mappings
StoresAfterBatch_saved(stores, new_mappings) ==
    [stores EXCEPT !.rows =
        [i \in 1..Len(stores.rows) |->
            IF HasKey(new_mappings, stores.rows[i].key)
            THEN [stores.rows[i] EXCEPT
                     !.mapped = TRUE,
                     !.category = new_mappings[stores.rows[i].key].suggestion]
            ELSE stores.rows[i]]]

\* The three stores after a batch of a bulk run: bulk_map holds no call of
\* save_progress, save_categories or save_file_mappings.
StoresAfterBatch(stores, new_mappings) == stores

\* faulty variant: every batch reads the stored category list again
BatchCategories_reloaded(loaded, stored) == stored

\* the categories a batch is rendered with and validated against: the local
\* 'categories' of bulk_map, loaded once before the loop
BatchCategories(loaded, stored) == loaded

\* what the backend may do with the request of one batch of a bulk run
BulkOutcomes(batch, categories) ==
    {Raise("conn"), Raise("read_timeout")}
    \cup {Http(500, "ok", << >>, << >>)}
    \cup {Http(HTTP_OK, "ok", Render(gen), gen) :
            gen \in {Uniform(batch, categories, "exact", 0),
                     Uniform(batch, categories, "upper", 1),
                     Uniform(batch, categories, "unmatched", 0)}}

\* the stores a bulk run may start from: rows "0".."n-1" in key order, the
\* mapped ones carrying a category of the list
MappedPatterns == {"none", "all", "some", "head"}

IsMapped(pattern, i) ==
    CASE pattern = "all" -> TRUE
      [] pattern = "some" -> i % 3 = 1
      [] pattern = "head" -> i < 2
      [] OTHER -> FALSE

StoreRows(n, pattern, categories) ==
    IF n = 0 THEN << >>
    ELSE [i \in 1..n |->
             [key |-> PyStr(IntToStr(i - 1)),
              data |-> TxData(i - 1),
              category |-> IF IsMapped(pattern, i - 1)
                           THEN CatFor(categories, i - 1) ELSE None,
              mapped |-> IsMapped(pattern, i - 1)]]

\* file_mappings.json after the rows were mapped one by one with map_row:
\* the entry of the uploaded file holds the category of every mapped row
FILE_NAME == <<"a", ".", "c", "s", "v">>

\* [row_data.get("data", {}) for row_data in progress["rows"].values()]
RowsData(rows) ==
    IF rows = << >> THEN << >> ELSE [i \in 1..Len(rows) |-> rows[i].data]

\* the hash of a list of row dicts, modelled by the list itself
get_file_mapping_hash(rows) ==
    IF rows = << >> THEN << >> ELSE [i \in 1..Len(rows) |-> rows[i]]

StoreFileMappings(rows) ==
    LET mapped == {i \in 1..Len(rows) : rows[i].mapped}
    IN  FILE_NAME :>
            [file_hash |-> get_file_mapping_hash(RowsData(rows)),
             rows |-> [k \in {rows[i].key : i \in mapped} |->
                          rows[CHOOSE i \in mapped : rows[i].key = k].category]]

InitBulk ==
    /\ categories_file \in CategoryLists
    /\ \E n \in 0..MaxRows :
           \E pattern \in (IF categories_file = << >> THEN {"none"}
                           ELSE MappedPatterns) :
               progress_rows = StoreRows(n, pattern, categories_file)
    /\ file_mappings = StoreFileMappings(progress_rows)
    /\ progress_file_name = FILE_NAME
    /\ progress_total_rows = Len(progress_rows)
    /\ BulkIdle
    /\ EngineIdle
    /\ PromptIdle
    /\ ValidatorIdle
    /\ RequestIdle

\* bulk_map up to the first batch: the loads, the two early returns
BulkStart ==
    /\ pc = "idle"
    /\ run_rows' = progress_rows
    /\ run_categories' = categories_file
    /\ IF categories_file = << >>
       THEN /\ response' = [status |-> 400, success |-> FALSE,
                            error |-> "No categories available"]
            /\ pc' = "done"
            /\ UNCHANGED <<unmapped_indices, previous_mappings>>
       ELSE /\ unmapped_indices' = UnmappedIndices(progress_rows)
            /\ IF UnmappedIndices(progress_rows) = << >>
               THEN /\ response' = [status |-> 200, success |-> TRUE,
                                    mappings |-> EmptyDict, unmapped_count |-> 0,
                                    progress |-> [current |-> 0, total |-> 0]]
                    /\ pc' = "done"
                    /\ UNCHANGED previous_mappings
               ELSE /\ previous_mappings' = InitialHistory(progress_rows)
                    /\ pc' = "loop"
                    /\ UNCHANGED response
    /\ UNCHANGED <<mappings, batch_start, processed_count, calls>>
    /\ UNCHANGED <<engineVars, storeVars, promptVars, validatorVars, requestVars>>

\* one iteration of the batch loop; the last one also returns the response
BulkBatch ==
    /\ pc = "loop"
    /\ LET batch_indices == BatchIndices(unmapped_indices, batch_start)
           transaction_batch == TransactionBatch(run_rows, batch_indices)
       IN  \E outcome \in BulkOutcomes(transaction_batch, run_categories),
              sink \in Sinks :
             LET batch_trace == create_trace(sink)
                 categories == BatchCategories(run_categories, categories_file)
                 batch_results ==
                     get_batch_llm_suggestions(transaction_batch, categories,
                                               previous_mappings, outcome,
                                               batch_trace).result
                 merged ==
                     MergeResults(batch_indices, batch_results, run_rows,
                                  [mappings |-> mappings,
                                   previous_mappings |-> previous_mappings,
                                   processed_count |-> processed_count])
                 stores ==
                     StoresAfterBatch([rows |-> progress_rows,
                                       categories |-> categories_file,
                                       file_mappings |-> file_mappings],
                                      merged.mappings)
             IN  /\ progress_rows' = stores.rows
                 /\ categories_file' = stores.categories
                 /\ file_mappings' = stores.file_mappings
                 /\ UNCHANGED <<progress_file_name, progress_total_rows>>
                 /\ calls' = Append(calls,
                        [indices |-> batch_indices,
                         categories |-> categories,
                         history |-> previous_mappings,
                         issued |-> BatchRequestIssued(transaction_batch,
                                                       run_categories,
                                                       previous_mappings),
                         outcome |-> outcome,
                         merged_before |-> processed_count])
                 /\ mappings' = merged.mappings
                 /\ previous_mappings' = merged.previous_mappings
                 /\ processed_count' = merged.processed_count
                 /\ batch_start' = batch_start + BATCH_SIZE
                 /\ IF batch_start + BATCH_SIZE >= Len(unmapped_indices)
                    THEN /\ pc' = "done"
                         /\ response' =
                                [status |-> 200, success |-> TRUE,
                                 mappings |-> merged.mappings,
                                 unmapped_count |-> Len(unmapped_indices),
                                 progress |-> [current |-> Len(unmapped_indices),
                                               total |-> Len(unmapped_indices)]]
                    ELSE /\ pc' = "loop"
                         /\ UNCHANGED response
    /\ UNCHANGED <<run_rows, run_categories, unmapped_indices>>
    /\ UNCHANGED <<engineVars, promptVars, validatorVars, requestVars>>

NextBulk == BulkStart \/ BulkBatch

SpecBulk == InitBulk /\ [][NextBulk]_vars

(***************************************************************************)
(* Properties of the bulk run (checked under SpecBulk).                    *)
(***************************************************************************)
BulkReturnedOk == pc = "done" /\ response.status = 200

RECURSIVE Concat(_)
Concat(seqs) == IF seqs = << >> THEN << >> ELSE Head(seqs) \o Concat(Tail(seqs))

\* the row indices of the calls 1..k of the run, in order
IndicesUpTo(k) == Concat([j \in 1..k |-> calls[j].indices])

\* the categories the backend named in the calls 1..k of the run, in order
NamedUpTo(k) ==
    Concat([j \in 1..k |->
               [i \in 1..Len(calls[j].outcome.gen) |-> calls[j].outcome.gen[i].cat]])

\* call j was answered with exactly one valid line per row of its batch
CallWellFormed(j) ==
    WellFormedFor([i \in 1..Len(calls[j].indices) |-> [idx |-> calls[j].indices[i]]],
                  run_categories, calls[j].outcome)

\* C3: when every batch so far was answered with one valid line per row, the
\* history given to the next batch is the initial history followed by one
\* example per row of the earlier batches, with the suggested categories.
C3_HistoryCarriesEarlierSuggestions ==
    \A k \in 2..Len(calls) :
        (\A j \in 1..(k - 1) : CallWellFormed(j)) =>
            LET initial == calls[1].history
                named == NamedUpTo(k - 1)
                given == calls[k].history
            IN  /\ Len(given) = Len(initial) + Len(IndicesUpTo(k - 1))
                /\ SubSeq(given, 1, Len(initial)) = initial
                /\ \A i \in 1..Len(named) :
                       given[Len(initial) + i].category = named[i]

\* C6: a bulk run over n >= 1 unmapped rows has issued exactly ceil(n/5)
\* backend calls when it returns, each after the previous results were merged.
C6_OneBackendCallPerBatch ==
    (BulkReturnedOk /\ unmapped_indices # << >>) =>
        /\ Cardinality({k \in 1..Len(calls) : calls[k].issued})
               = (Len(unmapped_indices) + 4) \div 5
        /\ \A k \in 1..Len(calls) :
               calls[k].merged_before = Len(IndicesUpTo(k - 1))

\* the keys of the rows of the store that are not mapped, in store order
UnmappedKeys ==
    LET sel == SelectSeq(progress_rows, LAMBDA r : r.mapped = FALSE)
    IN  IF sel = << >> THEN << >> ELSE [i \in 1..Len(sel) |-> sel[i].key]

\* C7: the groups of a bulk run are consecutive slices of at most 5 of the
\* unmapped rows in their original order; together they are the unmapped
\* rows, each once, and only the last group is shorter than 5.
C7_GroupsPartitionUnmapped ==
    /\ pc \in {"loop", "done"} =>
          /\ IndicesUpTo(Len(calls))
                 = SubSeq(UnmappedKeys, 1, Len(IndicesUpTo(Len(calls))))
          /\ \A k \in 1..Len(calls) :
                /\ Len(calls[k].indices) >= 1
                /\ Len(calls[k].indices) <= 5
                /\ k < Len(calls) => Len(calls[k].indices) = 5
          /\ \A k \in 1..Len(calls) : \A i \in 1..Len(calls[k].indices) :
                \A r \in 1..Len(progress_rows) :
                    progress_rows[r].key = calls[k].indices[i]
                    => ~progress_rows[r].mapped
    /\ BulkReturnedOk => IndicesUpTo(Len(calls)) = UnmappedKeys

\* a finished run over 12 unmapped rows of a store that also holds mapped
\* rows: groups of 5, 5 and 2
C7_Witness ==
    /\ BulkReturnedOk
    /\ Len(calls) = 3
    /\ Len(calls[1].indices) = 5
    /\ Len(calls[2].indices) = 5
    /\ Len(calls[3].indices) < 5
    /\ \E r \in 1..Len(progress_rows) : progress_rows[r].mapped

\* C8: the mappings of a finished bulk run hold one outcome per unmapped row
\* and no other; each has confirmed = false, the row's data, and either a
\* suggestion or an error, never both and never neither.
C8_OneOutcomePerUnmappedRow ==
    BulkReturnedOk =>
        /\ DOMAIN response.mappings
               = {UnmappedKeys[i] : i \in 1..Len(UnmappedKeys)}
        /\ \A r \in 1..Len(progress_rows) :
               ~progress_rows[r].mapped =>
                   LET m == response.mappings[progress_rows[r].key]
                       error == IF "error" \in DOMAIN m THEN m.error ELSE None
                   IN  /\ m.confirmed = FALSE
                       /\ m.data = progress_rows[r].data
                       /\ (m.suggestion # None) # (error # None)

\* a finished run whose mappings hold failures of two batches, over a store
\* that also holds mapped rows
C8_Witness ==
    /\ BulkReturnedOk
    /\ Len(calls) >= 2
    /\ Cardinality(DOMAIN response.mappings) >= 6
    /\ \E r \in 1..Len(progress_rows) : progress_rows[r].mapped
    /\ \E k \in DOMAIN response.mappings : response.mappings[k].suggestion = None

\* C15: a bulk run over a store with no unmapped row returns 200 with
\* success, empty mappings, unmapped count 0 and progress 0/0, and has called
\* the backend for no batch, whatever the category list holds.
C15_NothingUnmappedReturnsEmpty ==
    (pc = "done" /\ UnmappedKeys = << >>) =>
        /\ response.status = 200
        /\ response.success
        /\ response.mappings = EmptyDict
        /\ response.unmapped_count = 0
        /\ response.progress = [current |-> 0, total |-> 0]
        /\ calls = << >>

\* C16: no step of a bulk run changes the progress store, the category list
\* or the file-mappings store.
C16_BulkPersistsNothing ==
    [][(pc' # pc \/ calls' # calls) =>
          /\ progress_rows' = progress_rows
          /\ categories_file' = categories_file
          /\ file_mappings' = file_mappings
          /\ progress_file_name' = progress_file_name
          /\ progress_total_rows' = progress_total_rows]_vars

\* a finished run of three batches over a store that holds mapped rows
\* recorded in the file mappings; the stores are as the run loaded them
C16_Witness ==
    /\ BulkReturnedOk
    /\ Len(calls) = 3
    /\ \E k \in 1..Len(calls) : calls[k].issued /\ AnsweredOk(calls[k].outcome)
    /\ DOMAIN file_mappings[FILE_NAME].rows # {}
    /\ progress_rows = run_rows
    /\ categories_file = run_categories
    /\ \A r \in 1..Len(progress_rows) :
           HasKey(response.mappings, progress_rows[r].key)
           => ~progress_rows[r].mapped /\ progress_rows[r].category = None

\* call j of the run failed as a whole: no response with status 200
CallFailed(j) == ~AnsweredOk(calls[j].outcome)

\* the rows of the calls 1..k whose mapping carries a suggestion, in order
SucceededUpTo(k) ==
    SelectSeq(IndicesUpTo(k), LAMBDA idx : Truthy(mappings[idx].suggestion))

\* C29: a failed batch does not stop the run and adds nothing to the
\* history: the batches are the consecutive slices of five of the unmapped
\* rows, all of them are processed before the run returns, and the history
\* is the initial one followed by one example per row that got a
\* suggestion, in processing order.
C29_FailedBatchNeitherStopsNorFeedsHistory ==
    calls # << >> =>
        LET initial == calls[1].history
            done == SucceededUpTo(Len(calls))
        IN  /\ \A j \in 1..Len(calls) :
                   calls[j].indices =
                       BatchIndices(unmapped_indices, BATCH_SIZE * (j - 1))
            /\ pc = "done" => IndicesUpTo(Len(calls)) = unmapped_indices
            /\ Len(previous_mappings) = Len(initial) + Len(done)
            /\ SubSeq(previous_mappings, 1, Len(initial)) = initial
            /\ \A i \in 1..Len(done) :
                   LET example == previous_mappings[Len(initial) + i]
                   IN  /\ example.category = mappings[done[i]].suggestion
                       /\ example.description
                              = RowData(run_rows, done[i])["Description"]

\* a returned run of three batches over a non-empty history whose first call
\* was refused and whose later calls were answered: every row has its entry
\* and the history is the initial one
C29_Witness ==
    /\ BulkReturnedOk
    /\ Len(calls) = 3
    /\ calls[1].outcome.kind = "conn"
    /\ AnsweredOk(calls[2].outcome)
    /\ AnsweredOk(calls[3].outcome)
    /\ calls[1].history # << >>
    /\ IndicesUpTo(3) = unmapped_indices
    /\ \A i \in 1..Len(unmapped_indices) : HasKey(mappings, unmapped_indices[i])
    /\ previous_mappings = calls[1].history

(***************************************************************************)
(* Specification SpecPrompt: one call of build_llm_prompt or of            *)
(* build_batch_llm_prompt on a history of 0 to MaxHistory examples, or on  *)
(* the history suggest_category or bulk_map loads from the mapped rows.    *)
(***************************************************************************)
\* the i-th example of a history; every tenth one lacks its date and category,
\* every tenth one its amount and description
HistoryExample(i) ==
    IF i % 10 = 3
    THEN [amount |-> IntToStr(i), description |-> <<"x">> \o IntToStr(i)]
    ELSE IF i % 10 = 7
    THEN [date |-> <<"d">> \o IntToStr(i),
          category |-> IF i % 2 = 0 THEN Food ELSE Rent]
    ELSE [date |-> <<"d">> \o IntToStr(i), amount |-> IntToStr(i),
          description |-> <<"x">> \o IntToStr(i),
          category |-> IF i % 2 = 0 THEN Food ELSE Rent]

\* a history of h examples, oldest first
HistoryOf(h) == IF h = 0 THEN << >> ELSE [i \in 1..h |-> HistoryExample(i)]

\* a transaction without one of its fields
Without(transaction_data, field) ==
    [k \in DOMAIN transaction_data \ {field} |-> transaction_data[k]]

\* transactions that lack their date, their amount, their description, or
\* everything but the amount
PartialData ==
    <<Without(TxData(0), "Date"), Without(TxData(1), "Amount"),
      Without(TxData(2), "Description"), Without(TxData(3), "Transaction Date"),
      [Amount |-> <<"5">>]>>

PartialBatch ==
    [i \in 1..Len(PartialData) |-> [idx |-> PyInt(i - 1), data |-> PartialData[i]]]

PromptBatches ==
    {BatchOf("int", 0, 1), BatchOf("int", 0, 2), BatchOf("str", 9, 3),
     BatchOf("int", 0, MaxBatchLen), PartialBatch}

SingleTransactions ==
    {BatchOf("int", 0, 1), BatchOf("int", 1, 1)}
    \cup {<<PartialBatch[i]>> : i \in 1..Len(PartialBatch)}

\* the history example suggest_category builds from a mapped row
SuggestHistoryEntry(transaction_data, category) ==
    [date |-> Get(transaction_data, "Date", << >>),
     amount |-> Get(transaction_data, "Amount", << >>),
     description |-> Get(transaction_data, "Description", << >>),
     category |-> category]

\* previous_mappings of suggest_category: one example per mapped row
SuggestHistory(rows) ==
    LET sel == SelectSeq(rows, LAMBDA r : r.mapped /\ Truthy(r.category))
    IN  IF sel = << >> THEN << >>
        ELSE [i \in 1..Len(sel) |->
                 SuggestHistoryEntry(sel[i].data, sel[i].category)]

\* the progress stores a prompt's history is loaded from
PromptStores(categories) ==
    {StoreRows(n, pattern, categories) :
        n \in {2, 5}, pattern \in {"all", "some", "head"}}

\* The history is given by the caller (no rows in the store), or the
\* endpoint loads it from the mapped rows of the progress store first.
InitPrompt ==
    /\ p_mode \in {"single", "batch"}
    /\ p_categories \in {<<Food>>, <<Food, Rent>>}
    /\ \/ /\ progress_rows = << >>
          /\ categories_file = << >>
          /\ p_history \in {HistoryOf(h) : h \in 0..MaxHistory}
          /\ p_pc = "ready"
       \/ /\ progress_rows \in PromptStores(p_categories)
          /\ categories_file = p_categories
          /\ p_history = << >>
          /\ p_pc = "load"
    /\ file_mappings = EmptyDict
    /\ progress_file_name = (IF progress_rows = << >> THEN None ELSE FILE_NAME)
    /\ progress_total_rows = Len(progress_rows)
    /\ IF p_mode = "single"
       THEN p_batch \in SingleTransactions
       ELSE p_batch \in PromptBatches
    /\ p_prompt = [raised |-> FALSE]
    /\ BulkIdle
    /\ EngineIdle
    /\ ValidatorIdle
    /\ RequestIdle

\* suggest_category and bulk_map build previous_mappings from the mapped rows
LoadHistory ==
    /\ p_pc = "load"
    /\ p_history' = IF p_mode = "single" THEN SuggestHistory(progress_rows)
                    ELSE InitialHistory(progress_rows)
    /\ p_pc' = "ready"
    /\ UNCHANGED <<p_mode, p_batch, p_categories, p_prompt>>
    /\ UNCHANGED <<engineVars, storeVars, bulkVars, validatorVars, requestVars>>

BuildSingle ==
    /\ p_pc = "ready"
    /\ p_mode = "single"
    /\ p_prompt' = build_llm_prompt(p_batch[1].data, p_categories, p_history)
    /\ p_pc' = "done"
    /\ UNCHANGED <<p_mode, p_batch, p_categories, p_history>>
    /\ UNCHANGED <<engineVars, storeVars, bulkVars, validatorVars, requestVars>>

BuildBatch ==
    /\ p_pc = "ready"
    /\ p_mode = "batch"
    /\ p_prompt' = build_batch_llm_prompt(p_batch, p_categories, p_history)
    /\ p_pc' = "done"
    /\ UNCHANGED <<p_mode, p_batch, p_categories, p_history>>
    /\ UNCHANGED <<engineVars, storeVars, bulkVars, validatorVars, requestVars>>

NextPrompt == LoadHistory \/ BuildSingle \/ BuildBatch

SpecPrompt == InitPrompt /\ [][NextPrompt]_vars

(***************************************************************************)
(* Properties of the prompts (checked under SpecPrompt).                   *)
(***************************************************************************)
PromptBuilt == p_pc = "done" /\ ~p_prompt.raised

\* the example line of a history entry as both builders format it
Rendered(mapping) ==
    [date |-> IF "date" \in DOMAIN mapping THEN mapping.date ELSE <<"N", "/", "A">>,
     amount |-> IF "amount" \in DOMAIN mapping THEN mapping.amount
                ELSE <<"N", "/", "A">>,
     description |-> IF "description" \in DOMAIN mapping THEN mapping.description
                     ELSE << >>,
     category |-> IF "category" \in DOMAIN mapping THEN mapping.category
                  ELSE <<"N", "/", "A">>]

\* C17: a prompt built over a history of h examples holds min(h, 100)
\* example lines: those of the last min(h, 100) entries, oldest first.
C17_PromptHoldsLastHundredExamples ==
    PromptBuilt =>
        LET h == Len(p_history)
            n == IF h < 100 THEN h ELSE 100
        IN  /\ Len(p_prompt.examples) = n
            /\ \A i \in 1..n :
                   p_prompt.examples[i] = Rendered(p_history[h - n + i])

\* a batch prompt over 101 examples: the first line is the second entry, the
\* last line the newest one, and the oldest entry has no line
C17_Witness ==
    /\ PromptBuilt
    /\ p_mode = "batch"
    /\ Len(p_history) = 101
    /\ Len(p_prompt.examples) = 100
    /\ p_prompt.examples[1] = Rendered(p_history[2])
    /\ p_prompt.examples[100] = Rendered(p_history[101])
    /\ \A i \in 1..100 : p_prompt.examples[i] # Rendered(p_history[1])

\* the transaction lines of the built prompt, in the order of p_batch
PromptLines ==
    IF p_mode = "single" THEN <<p_prompt.transaction>> ELSE p_prompt.transactions

HasDate(transaction_data) ==
    "Date" \in DOMAIN transaction_data \/ "Transaction Date" \in DOMAIN transaction_data

\* the date a transaction carries under either field name
DateOf(transaction_data) ==
    IF "Date" \in DOMAIN transaction_data THEN transaction_data["Date"]
    ELSE transaction_data["Transaction Date"]

\* the history entries behind the example lines of the prompt, oldest first
Window ==
    LET h == Len(p_history)
        n == IF h < 100 THEN h ELSE 100
    IN  IF n = 0 THEN << >> ELSE [i \in 1..n |-> p_history[h - n + i]]

\* C21: in both prompts every missing field is rendered as N/A: the date,
\* amount and description of a transaction to categorize, and the date,
\* amount, description and category of a history example.
C21_MissingFieldIsRenderedNA ==
    PromptBuilt =>
        /\ \A i \in 1..Len(p_batch) :
               LET data == p_batch[i].data
                   line == PromptLines[i]
               IN  /\ ~HasDate(data) => line.date = <<"N", "/", "A">>
                   /\ "Amount" \notin DOMAIN data => line.amount = <<"N", "/", "A">>
                   /\ "Description" \notin DOMAIN data
                      => line.description = <<"N", "/", "A">>
        /\ \A i \in 1..Len(Window) :
               \A field \in {"date", "amount", "description", "category"} :
                   field \notin DOMAIN Window[i]
                   => p_prompt.examples[i][field] = <<"N", "/", "A">>

\* C22: a transaction's date under 'Date' or under 'Transaction Date' is
\* the date of its prompt line on the single-row and on the bulk path, and
\* the date of the history example built from it when its row is mapped.
C22_DateFieldNamesAreSynonyms ==
    PromptBuilt =>
        /\ \A i \in 1..Len(p_batch) :
               HasDate(p_batch[i].data)
               => PromptLines[i].date = DateOf(p_batch[i].data)
        /\ progress_rows # << >> =>
               LET sel == SelectSeq(progress_rows, LAMBDA r : r.mapped)
               IN  /\ Len(p_history) = Len(sel)
                   /\ \A i \in 1..Len(sel) :
                          HasDate(sel[i].data)
                          => p_history[i].date = DateOf(sel[i].data)

(***************************************************************************)
(* Specification SpecValidator: one call of validate_and_correct_category  *)
(* on a name drawn from the sets below.                                    *)
(***************************************************************************)
NameChars == {"a", "B", "1", SP, "&", "!", "-", E_ACUTE}

\* every name of at most n characters
Names(n) == UNION {[1..k -> NameChars] : k \in 0..n}

\* k times the character c
Fill(c, k) == IF k = 0 THEN << >> ELSE [i \in 1..k |-> c]

\* names of 46 to 56 characters around the length limit
LongNames ==
    {head \o Fill("x", k) \o tail :
        head \in {<< >>, <<"a", SP, SP, "b">>, <<"!", "a">>},
        k \in 46..50,
        tail \in {<< >>, <<"a">>, <<SP, "a">>, <<"!", "a">>, <<"a", "!">>}}

CoffeeAndSnacks ==
    <<SP, SP, "c", "o", "f", "f", "e", "e", SP, "&", SP,
      "s", "n", "a", "c", "k", "s", "!", "!">>

NameInputs ==
    Names(MaxNameLen) \cup LongNames
        \cup {CoffeeAndSnacks, <<"\t", NL>>, <<SP, "A", "T", "M", SP, SP, "f", "e", "e">>}

InitValidator ==
    /\ v_input \in NameInputs
    /\ v_pc = "ready"
    /\ v_result = EmptyNameResult(<< >>, << >>)
    /\ StoreIdle
    /\ BulkIdle
    /\ EngineIdle
    /\ PromptIdle
    /\ RequestIdle

Validate ==
    /\ v_pc = "ready"
    /\ v_result' = validate_and_correct_category(v_input)
    /\ v_pc' = "done"
    /\ UNCHANGED v_input
    /\ UNCHANGED <<engineVars, storeVars, bulkVars, promptVars, requestVars>>

NextValidator == Validate

SpecValidator == InitValidator /\ [][NextValidator]_vars

(***************************************************************************)
(* Properties of the validator (checked under SpecValidator).              *)
(***************************************************************************)
Validated == v_pc = "done"

\* letters, digits, whitespace, '&', '-' and '/'
IsLetter(c) ==
    \/ \E i \in 1..Len(LowerChars) : c \in {LowerChars[i], UpperChars[i]}
    \/ c \in {E_ACUTE, E_ACUTE_UPPER}

Kept(c) == IsLetter(c) \/ IsDigit(c) \/ c \in {SP, NL, "\t", "&", "-", "/"}

\* the kinds of the entries of a corrections list, in order
Kinds(corrections) == [i \in 1..Len(corrections) |-> corrections[i].kind]

\* C18: for a name that is not empty once trimmed, corrected is the trimmed
\* name cut to 50 characters, then title-cased, then stripped of every
\* character other than letters, digits, whitespace, '&', '-', '/'; the
\* corrections list holds one entry per step that changed the value, in that
\* order, and has_corrections tells whether it holds any.
C18_CorrectedIsTruncatedTitledStripped ==
    (Validated /\ Strip(v_input) # << >>) =>
        LET trimmed == Strip(v_input)
            cut == IF Len(trimmed) > 50 THEN SubSeq(trimmed, 1, 50) ELSE trimmed
            titled == TitleCase(cut)
            kept == SelectSeq(titled, Kept)
            expected ==
                (IF cut # trimmed THEN <<"Truncated from">> ELSE << >>)
                \o (IF titled # cut THEN <<"Capitalization">> ELSE << >>)
                \o (IF kept # titled THEN <<"Removed invalid characters">>
                    ELSE << >>)
        IN  /\ v_result.original = v_input
            /\ v_result.corrected = kept
            /\ Kinds(v_result.corrections) = expected
            /\ v_result.has_corrections = (expected # << >>)

\* C19: for a name that is empty once trimmed, the call returns
\* has_corrections = true, corrected = the empty string and the one
\* correction 'Category name cannot be empty'.
C19_EmptyNameIsReported ==
    (Validated /\ Strip(v_input) = << >>) =>
        /\ v_result.original = v_input
        /\ v_result.has_corrections
        /\ v_result.corrected = << >>
        /\ Kinds(v_result.corrections) = <<"Category name cannot be empty">>

\* a name of whitespace only, validated
C19_Witness ==
    /\ Validated
    /\ v_input # << >>
    /\ Strip(v_input) = << >>
    /\ v_result.has_corrections
    /\ v_result.corrected = << >>

(***************************************************************************)
(* The request handlers on the stores: add_category,                       *)
(* confirm_add_category, upload_file, map_row, reset_file.  A handler is   *)
(* an operator from the stores and the request to the status and the       *)
(* stores it saved.                                                        *)
(***************************************************************************)
\* the characters of the model in code point order
Alphabet ==
    <<"\t", NL, SP, "!", DQ, "&", SQ, "-", ".", "/">> \o DigitChars \o <<COLON>>
        \o UpperChars \o LowerChars \o <<E_ACUTE_UPPER, E_ACUTE>>

Ord(c) == CHOOSE i \in 1..Len(Alphabet) : Alphabet[i] = c

\* a < b on Python strings
RECURSIVE TextLess(_, _)
TextLess(a, b) ==
    IF b = << >> THEN FALSE
    ELSE IF a = << >> THEN TRUE
    ELSE IF Head(a) = Head(b) THEN TextLess(Tail(a), Tail(b))
    ELSE Ord(Head(a)) < Ord(Head(b))

\* x placed behind every element whose lower-cased name is not greater
RECURSIVE InsertByLower(_, _)
InsertByLower(sorted, x) ==
    IF sorted = << >> THEN <<x>>
    ELSE IF TextLess(Lower(x), Lower(Head(sorted))) THEN <<x>> \o sorted
    ELSE <<Head(sorted)>> \o InsertByLower(Tail(sorted), x)

\* faulty variant: the list is left in the order of the appends
SortByLower_unsorted(list) == list

\* categories.sort(key=str.lower): a stable sort
RECURSIVE SortByLower(_)
SortByLower(list) ==
    IF list = << >> THEN << >>
    ELSE InsertByLower(SortByLower(SubSeq(list, 1, Len(list) - 1)), list[Len(list)])

\* "for cat in categories: if cat.lower() == category_lower"
ExistsIgnoringCase(categories, name) ==
    \E i \in 1..Len(categories) : Lower(categories[i]) = Lower(name)

\* add_category: validates the name and answers; nothing is saved
add_category(categories, name) ==
    LET category_name == Strip(name)
        validation == validate_and_correct_category(category_name)
    IN  IF category_name = << >>
        THEN [status |-> 400, categories |-> categories, action |-> "none"]
        ELSE IF ExistsIgnoringCase(categories, validation.corrected)
        THEN [status |-> 400, categories |-> categories, action |-> "none"]
        ELSE [status |-> 200, categories |-> categories,
              action |-> IF validation.has_corrections THEN "confirm" ELSE "add"]

\* confirm_add_category: appends the name, sorts and saves the list
confirm_add_category(categories, category) ==
    LET corrected_category == Strip(category)
    IN  IF corrected_category = << >>
        THEN [status |-> 400, categories |-> categories]
        ELSE IF ExistsIgnoringCase(categories, corrected_category)
        THEN [status |-> 400, categories |-> categories]
        ELSE [status |-> 201,
              categories |-> SortByLower(Append(categories, corrected_category))]

\* row.get(a) or row.get(b) or ...: the first non-empty value, else None
RECURSIVE FirstTruthy(_, _)
FirstTruthy(row, names) ==
    IF names = << >> THEN None
    ELSE IF Head(names) \in DOMAIN row /\ Truthy(row[Head(names)])
    THEN row[Head(names)]
    ELSE FirstTruthy(row, Tail(names))

is_row_valid(row) ==
    LET date_field == FirstTruthy(row, <<"Date", "Transaction Date", "date">>)
        description_field == FirstTruthy(row, <<"Description", "description">>)
        amount_field == FirstTruthy(row, <<"Amount", "amount">>)
    IN  /\ Truthy(date_field) /\ Strip(date_field) # << >>
        /\ Truthy(description_field) /\ Strip(description_field) # << >>
        /\ Truthy(amount_field) /\ Strip(amount_field) # << >>

EndsWith(s, suffix) ==
    Len(s) >= Len(suffix) /\ SubSeq(s, Len(s) - Len(suffix) + 1, Len(s)) = suffix

\* filename_lower.endswith('.csv') or filename_lower.endswith('.json')
Supported(filename) ==
    \/ EndsWith(Lower(filename), <<".", "c", "s", "v">>)
    \/ EndsWith(Lower(filename), <<".", "j", "s", "o", "n">>)

HasRow(rows, row_key) == \E i \in 1..Len(rows) : rows[i].key = row_key

\* progress["rows"][row_key] = value: an existing key keeps its place in the
\* dict, a new key goes to the end
PutRow(rows, row_key, value) ==
    IF HasRow(rows, row_key)
    THEN [i \in 1..Len(rows) |-> IF rows[i].key = row_key THEN value ELSE rows[i]]
    ELSE Append(rows, value)

\* "for row in progress["rows"].values(): row category None, mapped False"
UnmapAll(rows) ==
    IF rows = << >> THEN << >>
    ELSE [i \in 1..Len(rows) |-> [rows[i] EXCEPT !.category = None, !.mapped = FALSE]]

\* progress["rows"][row_key]["category"] = category; ...["mapped"] = True
SetCategory(rows, row_key, category) ==
    IF rows = << >> THEN << >>
    ELSE [i \in 1..Len(rows) |->
             IF rows[i].key = row_key
             THEN [rows[i] EXCEPT !.category = category, !.mapped = TRUE]
             ELSE rows[i]]

\* del d[k]
Del(d, k) == IF DOMAIN d \ {k} = {} THEN EmptyDict ELSE [x \in DOMAIN d \ {k} |-> d[x]]

\* "for idx, row in enumerate(rows): progress["rows"][str(idx)] = ..." from
\* idx on, over the rows the store already holds; a row whose key is in
\* previous_rows is restored as mapped
RECURSIVE UploadRows(_, _, _, _)
UploadRows(stored, rows, previous_rows, idx) ==
    IF idx >= Len(rows) THEN stored
    ELSE LET row_key == PyStr(IntToStr(idx))
             value == IF HasKey(previous_rows, row_key)
                      THEN [key |-> row_key, data |-> rows[idx + 1],
                            category |-> previous_rows[row_key], mapped |-> TRUE]
                      ELSE [key |-> row_key, data |-> rows[idx + 1],
                            category |-> None, mapped |-> FALSE]
         IN  UploadRows(PutRow(stored, row_key, value), rows, previous_rows, idx + 1)

\* upload_file.  stores is [rows, file_mappings, file_name, total_rows].  The
\* rows of the file are restored from the entry of the file name when its
\* hash is the hash of the upload; a new name and a changed content get a
\* fresh entry and unmapped rows.
upload_file(stores, filename, all_rows) ==
    IF filename = << >> \/ ~Supported(filename)
    THEN [status |-> 400, stores |-> stores]
    ELSE LET rows == SelectSeq(all_rows, is_row_valid)
             file_hash == get_file_mapping_hash(rows)
             unchanged ==
                 /\ HasKey(stores.file_mappings, filename)
                 /\ stores.file_mappings[filename].file_hash = file_hash
             previous_rows == IF unchanged THEN stores.file_mappings[filename].rows
                              ELSE EmptyDict
         IN  [status |-> 200,
              stores |->
                  [rows |-> UploadRows(stores.rows, rows, previous_rows, 0),
                   file_mappings |->
                       IF unchanged THEN stores.file_mappings
                       ELSE Put(stores.file_mappings, filename,
                                [file_hash |-> file_hash, rows |-> EmptyDict]),
                   file_name |-> filename,
                   total_rows |-> Len(rows)]]

\* faulty variant: the category is not checked against the list
map_row_anyCategory(stores, categories, row_idx, category) ==
    LET row_key == PyStr(Format(row_idx))
    IN  IF ~HasRow(stores.rows, row_key) THEN [status |-> 404, stores |-> stores]
        ELSE [status |-> 200,
              stores |-> [stores EXCEPT
                             !.rows = SetCategory(stores.rows, row_key, category)]]

\* map_row.  An entry of file_mappings always carries a file hash, so the
\* branch 'update hash if not set' changes nothing.
map_row(stores, categories, row_idx, category) ==
    LET row_key == PyStr(Format(row_idx))
        rows == SetCategory(stores.rows, row_key, category)
        file_name == stores.file_name
        current_file_hash == get_file_mapping_hash(RowsData(rows))
        entry == IF HasKey(stores.file_mappings, file_name)
                 THEN stores.file_mappings[file_name]
                 ELSE [file_hash |-> current_file_hash, rows |-> EmptyDict]
    IN  IF ~InList(category, categories) THEN [status |-> 400, stores |-> stores]
        ELSE IF ~HasRow(stores.rows, row_key) THEN [status |-> 404, stores |-> stores]
        ELSE [status |-> 200,
              stores |->
                  [stores EXCEPT
                      !.rows = rows,
                      !.file_mappings =
                          IF Truthy(file_name)
                          THEN Put(stores.file_mappings, file_name,
                                   [entry EXCEPT
                                       !.rows = Put(entry.rows, row_key, category)])
                          ELSE stores.file_mappings]]

\* faulty variant: the entry of the file name is kept
reset_file_keepsEntry(stores, file_name) ==
    IF ~Truthy(file_name) THEN [status |-> 400, stores |-> stores]
    ELSE [status |-> 200,
          stores |-> [stores EXCEPT !.rows =
              IF stores.file_name = file_name THEN UnmapAll(stores.rows)
              ELSE stores.rows]]

\* reset_file: the entry of the file name is deleted; the rows of the
\* progress store are unmapped when it holds that file
reset_file(stores, file_name) ==
    IF ~Truthy(file_name) THEN [status |-> 400, stores |-> stores]
    ELSE [status |-> 200,
          stores |->
              [stores EXCEPT
                  !.file_mappings = Del(stores.file_mappings, file_name),
                  !.rows = IF stores.file_name = file_name
                           THEN UnmapAll(stores.rows) ELSE stores.rows]]

(***************************************************************************)
(* Specification SpecStore: up to MaxRequests requests to                  *)
(* confirm_add_category, upload_file, map_row and reset_file, in any       *)
(* order, on stores that start empty but for the category list.            *)
(***************************************************************************)
B_JSON == <<"b", ".", "J", "S", "O", "N">>
C_TXT == <<"c", ".", "t", "x", "t">>
FileNames == {FILE_NAME, B_JSON, C_TXT}

\* the rows of an uploaded file as the parser hands them over
TwoRows == <<TxData(0), TxData(1)>>
ThreeRows == <<TxData(0), TxData(1), TxData(2)>>
GapRows ==
    <<TxData(0), Without(TxData(2), "Amount"), TxData(1),
      [Date |-> <<"d", "9">>, Amount |-> <<"9">>, Description |-> <<SP>>]>>
UploadContents == {TwoRows, ThreeRows, GapRows}

food == <<"f", "o", "o", "d">>
CategoryInputs == {Rent, food, <<SP, "a", "b", SP>>, <<"B">>, << >>}
AddInputs == CategoryInputs \cup {<<"b", "!">>}
RowIndexInputs == {PyInt(0), PyStr(<<"1">>), PyInt(2), PyInt(5)}
MapCategoryInputs == {Food, Rent, food}

StoreState ==
    [rows |-> progress_rows, file_mappings |-> file_mappings,
     file_name |-> progress_file_name, total_rows |-> progress_total_rows]

\* the keys "0".."n-1" of a file of n valid rows
FileKeys(n) == {PyStr(IntToStr(i)) : i \in 0..(n - 1)}

\* the mapped rows among the rows "0".."n-1" of the store, with their category
MappedOf(rows, n) ==
    LET mapped == {i \in 1..Len(rows) : rows[i].key \in FileKeys(n) /\ rows[i].mapped}
    IN  IF mapped = {} THEN EmptyDict
        ELSE [k \in {rows[i].key : i \in mapped} |->
                 rows[CHOOSE i \in mapped : rows[i].key = k].category]

\* s_seen after a request: the entry of the file the store holds records
\* which of the file's rows are mapped
SeenAfter(seen, stores) ==
    IF Truthy(stores.file_name) /\ HasKey(seen, stores.file_name)
    THEN LET entry == seen[stores.file_name]
             n == Len(SelectSeq(entry.content, is_row_valid))
         IN  Put(seen, stores.file_name,
                 [entry EXCEPT !.mapped = MappedOf(stores.rows, n)])
    ELSE seen

InitStore ==
    /\ categories_file \in CategoryLists
    /\ progress_rows = << >>
    /\ file_mappings = EmptyDict
    /\ progress_file_name = None
    /\ progress_total_rows = 0
    /\ RequestIdle
    /\ BulkIdle
    /\ EngineIdle
    /\ PromptIdle
    /\ ValidatorIdle

AddCategory ==
    /\ s_count < MaxRequests
    /\ \E name \in AddInputs :
          LET r == add_category(categories_file, name)
          IN  /\ categories_file' = r.categories
              /\ s_last' = [op |-> "add", status |-> r.status, name |-> name,
                            idx |-> None, rows |-> << >>]
    /\ s_count' = s_count + 1
    /\ UNCHANGED <<progress_rows, file_mappings, progress_file_name,
                   progress_total_rows, s_seen>>
    /\ UNCHANGED <<engineVars, bulkVars, promptVars, validatorVars>>

ConfirmAddCategory ==
    /\ s_count < MaxRequests
    /\ \E category \in CategoryInputs :
          LET r == confirm_add_category(categories_file, category)
          IN  /\ categories_file' = r.categories
              /\ s_last' = [op |-> "confirm", status |-> r.status, name |-> category,
                            idx |-> None, rows |-> << >>]
    /\ s_count' = s_count + 1
    /\ UNCHANGED <<progress_rows, file_mappings, progress_file_name,
                   progress_total_rows, s_seen>>
    /\ UNCHANGED <<engineVars, bulkVars, promptVars, validatorVars>>

UploadFile ==
    /\ s_count < MaxRequests
    /\ \E filename \in FileNames, all_rows \in UploadContents :
          LET r == upload_file(StoreState, filename, all_rows)
              same == HasKey(s_seen, filename) /\ s_seen[filename].content = all_rows
              seen == IF r.status # 200 THEN s_seen
                      ELSE IF same
                      THEN Put(s_seen, filename,
                               [s_seen[filename] EXCEPT !.reset = FALSE, !.again = TRUE])
                      ELSE Put(s_seen, filename,
                               [content |-> all_rows, mapped |-> EmptyDict,
                                reset |-> FALSE, again |-> FALSE])
          IN  /\ progress_rows' = r.stores.rows
              /\ file_mappings' = r.stores.file_mappings
              /\ progress_file_name' = r.stores.file_name
              /\ progress_total_rows' = r.stores.total_rows
              /\ s_last' = [op |-> "upload", status |-> r.status, name |-> filename,
                            idx |-> None, rows |-> all_rows]
              /\ s_seen' = SeenAfter(seen, r.stores)
    /\ s_count' = s_count + 1
    /\ UNCHANGED categories_file
    /\ UNCHANGED <<engineVars, bulkVars, promptVars, validatorVars>>

MapRow ==
    /\ s_count < MaxRequests
    /\ \E row_idx \in RowIndexInputs, category \in MapCategoryInputs :
          LET r == map_row(StoreState, categories_file, row_idx, category)
          IN  /\ progress_rows' = r.stores.rows
              /\ file_mappings' = r.stores.file_mappings
              /\ s_last' = [op |-> "map", status |-> r.status, name |-> category,
                            idx |-> row_idx, rows |-> << >>]
              /\ s_seen' = SeenAfter(s_seen, r.stores)
    /\ s_count' = s_count + 1
    /\ UNCHANGED <<categories_file, progress_file_name, progress_total_rows>>
    /\ UNCHANGED <<engineVars, bulkVars, promptVars, validatorVars>>

ResetFile ==
    /\ s_count < MaxRequests
    /\ \E file_name \in {FILE_NAME, B_JSON, << >>} :
          LET r == reset_file(StoreState, file_name)
              seen == IF r.status = 200 /\ HasKey(s_seen, file_name)
                      THEN Put(s_seen, file_name,
                               [s_seen[file_name] EXCEPT !.mapped = EmptyDict,
                                                         !.reset = TRUE])
                      ELSE s_seen
          IN  /\ progress_rows' = r.stores.rows
              /\ file_mappings' = r.stores.file_mappings
              /\ s_last' = [op |-> "reset", status |-> r.status, name |-> file_name,
                            idx |-> None, rows |-> << >>]
              /\ s_seen' = SeenAfter(seen, r.stores)
    /\ s_count' = s_count + 1
    /\ UNCHANGED <<categories_file, progress_file_name, progress_total_rows>>
    /\ UNCHANGED <<engineVars, bulkVars, promptVars, validatorVars>>

NextStore == ConfirmAddCategory \/ UploadFile \/ MapRow \/ ResetFile

SpecStore == InitStore /\ [][NextStore]_vars

(***************************************************************************)
(* Specification SpecCategories: up to MaxRequests requests to             *)
(* add_category and confirm_add_category.                                  *)
(***************************************************************************)
NextCategories == AddCategory \/ ConfirmAddCategory

SpecCategories == InitStore /\ [][NextCategories]_vars

(***************************************************************************)
(* Properties of the category list (checked under SpecCategories).         *)
(***************************************************************************)
SortedByLower(list) ==
    \A i \in 1..Len(list) : \A j \in (i + 1)..Len(list) :
        ~TextLess(Lower(list[j]), Lower(list[i]))

NoTwoEqualIgnoringCase(list) ==
    \A i \in 1..Len(list) : \A j \in 1..Len(list) :
        i # j => Lower(list[i]) # Lower(list[j])

Uploaded == s_last.op = "upload" /\ s_last.status = 200

\* C25: after a successful upload the rows of the progress store are the
\* valid rows of the uploaded file under the keys 0..n-1, n = total_rows,
\* and no other row is in the store.
C25_UploadReplacesTheRows ==
    Uploaded =>
        LET rows == SelectSeq(s_last.rows, is_row_valid)
        IN  /\ progress_total_rows = Len(rows)
            /\ Len(progress_rows) = Len(rows)
            /\ \A i \in 1..Len(rows) :
                   \E r \in 1..Len(progress_rows) :
                       /\ progress_rows[r].key = PyStr(IntToStr(i - 1))
                       /\ progress_rows[r].data = rows[i]

\* C26: a row marked mapped carries a category of the stored list, a row
\* not marked mapped carries none; a map-row request with a category that
\* is not in the list, or with a row index the store does not hold, is
\* rejected and leaves the progress and file-mappings stores as they are.
C26_MappedRowsCarryListedCategories ==
    /\ [](\A r \in 1..Len(progress_rows) :
             IF progress_rows[r].mapped
             THEN InList(progress_rows[r].category, categories_file)
             ELSE progress_rows[r].category = None)
    /\ [][(s_last'.op = "map"
           /\ \/ ~InList(s_last'.name, categories_file)
              \/ ~HasRow(progress_rows, PyStr(Format(s_last'.idx))))
          => /\ s_last'.status \in {400, 404}
             /\ progress_rows' = progress_rows
             /\ progress_file_name' = progress_file_name
             /\ progress_total_rows' = progress_total_rows
             /\ file_mappings' = file_mappings]_vars

\* a map-row request for a row the store does not hold was answered 404 on
\* a store with a mapped and an unmapped row
C26_Witness ==
    /\ s_last.op = "map"
    /\ s_last.status = 404
    /\ InList(s_last.name, categories_file)
    /\ \E r \in 1..Len(progress_rows) : progress_rows[r].mapped
    /\ \E r \in 1..Len(progress_rows) : ~progress_rows[r].mapped

\* the row of the store under the key of row i (from 0) of the file
RowOfFile(rows, i) == rows[CHOOSE r \in 1..Len(rows) : rows[r].key = PyStr(IntToStr(i))]

InitInterleaved ==
    /\ InitBulk
    /\ Len(UnmappedIndices(progress_rows)) = 6

InterleavedConfirm ==
    /\ pc = "loop"
    /\ s_count < MaxInterleaved
    /\ ConfirmAddCategory

InterleavedMapRow ==
    /\ pc = "loop"
    /\ s_count < MaxInterleaved
    /\ MapRow

NextInterleaved == BulkStart \/ BulkBatch \/ InterleavedConfirm \/ InterleavedMapRow

SpecInterleaved == InitInterleaved /\ [][NextInterleaved]_vars

\* C24: a bulk run works on the category list and the progress rows it
\* loaded at its start: whatever confirm-add-category and map-row requests
\* are served between its batches, every batch is rendered with and
\* validated against the loaded list, and the batches are the slices of
\* the rows that were unmapped when the run started, with their data.
C24_BulkRunWorksOnItsSnapshot ==
    /\ []((pc # "idle" /\ s_count = 0)
          => (run_rows = progress_rows /\ run_categories = categories_file))
    /\ [](\A j \in 1..Len(calls) :
             /\ calls[j].categories = run_categories
             /\ calls[j].indices =
                    BatchIndices(UnmappedIndices(run_rows), BATCH_SIZE * (j - 1))
             /\ \A i \in 1..Len(calls[j].indices) :
                    /\ HasKey(mappings, calls[j].indices[i])
                    /\ mappings[calls[j].indices[i]].data
                           = RowData(run_rows, calls[j].indices[i]))
    /\ []((pc = "done" /\ calls # << >>)
          => IndicesUpTo(Len(calls)) = UnmappedIndices(run_rows))
    /\ [][pc # "idle" => (run_rows' = run_rows /\ run_categories' = run_categories)]_vars

\* a finished run of two batches or more: between its batches a category
\* was added and a row of the run was mapped; the last batch was called
\* with the list of the start and the row has its entry in the mappings
C24_Witness ==
    /\ BulkReturnedOk
    /\ Len(calls) >= 2
    /\ categories_file # run_categories
    /\ calls[Len(calls)].categories = run_categories
    /\ calls[Len(calls)].categories # categories_file
    /\ \E r \in 1..Len(progress_rows) :
          /\ progress_rows[r].mapped
          /\ ~run_rows[r].mapped
          /\ \E i \in 1..Len(calls[Len(calls)].indices) :
                 calls[Len(calls)].indices[i] = progress_rows[r].key
          /\ HasKey(mappings, progress_rows[r].key)

====
